---- MODULE Spec2Model ----
(***************************************************************************)
(* A model of the bill_splitter ledger engine (backend/tools/data_tools.py):*)
(* the JSON store, the balance-netting primitives, the public tool_*       *)
(* operations, and the properties the specification states about them.     *)
(*                                                                         *)
(* Fifteen specifications share the definitions below:                     *)
(*   Spec       the whole store life cycle, from a missing store file;     *)
(*   SpecLedger transactions, payments and rebuilds on a registered store; *)
(*   SpecNet    apply_net_delta alone, on one net map that starts empty;   *)
(*   SpecSplit  one call on a registered store, over a wide input set;     *)
(*   SpecRegistry the identity registry, with names that differ in case;   *)
(*   SpecProfile the Save Profile handler of frontend/main.py;             *)
(*   SpecSave   write_json_atomic step by step, with crashes;              *)
(*   SpecLoad   read_json of a missing file, and the objects it returns;   *)
(*   SpecCorrupt the tools on a store file that does not fit the schema;   *)
(*   SpecIngest the bill adapter, backend/splitter.py process();           *)
(*   SpecCodec  to_cents and from_cents alone;                             *)
(*   SpecExtras the tools on a store whose records carry unknown fields;   *)
(*   SpecSelf   payments and deltas from a user to themselves;             *)
(*   SpecOrder  apply_net_delta, with the multiset of updates applied;     *)
(*   SpecRace   two processes that run tool_add_payment on one store.      *)
(***************************************************************************)
EXTENDS Integers, Sequences, FiniteSets, TLC

VARIABLES
    disk,     \* the store file: [exists |-> FALSE] or [exists |-> TRUE, doc |-> store]
    last,     \* what the last call was and how it ended
    net,      \* SpecNet: the net map apply_net_delta works on
    pending   \* SpecSplit: the call that is about to be made;
              \* SpecProfile: the front end's session state;
              \* SpecSave: the save in progress and its temporary file;
              \* SpecLoad: the objects in memory;
              \* SpecCorrupt: the file as it was at first;
              \* SpecIngest: the process() call about to be made;
              \* SpecCodec: the amount about to be converted;
              \* SpecOrder: the updates applied so far;
              \* SpecRace: each writer's position and loaded document;
              \* SpecExtras, SpecSelf: unused

vars == <<disk, last, net, pending>>

(***************************************************************************)
(* Bounds of the model.                                                    *)
(***************************************************************************)
\* SpecNet: deltas range over -MaxDelta..MaxDelta, edges are kept <= MaxEdge.
MaxDelta == 2
MaxEdge == 3
\* SpecSplit: integer totals and shares range up to MaxCents (and down to -2).
MaxCents == 4
\* Spec: at most MaxEvents transactions and payments are recorded.
MaxEvents == 2

(***************************************************************************)
(* Identifiers.  new_id draws a random uuid; the model hands out the next  *)
(* unused identifier of a pool.                                            *)
(***************************************************************************)
UserIdPool == <<"u1", "u2", "u3", "u4", "u5", "u6", "u7", "u8">>
GroupIdPool == <<"g1", "g2">>
\* An id that is never registered, for calls that name an unknown user or group.
NoUser == "u9"
NoGroup == "g9"

new_id(pool, items) == pool[Len(items) + 1]

\* now_iso() as balances.updated_at: the model keeps no wall clock; the stamp
\* is one token, and only "set" or None can be told apart.
now_iso == "ts"
None == "None"

\* now_iso() as an event's created_at: the time order of the recorded events,
\* as a logical clock (the n-th recorded transaction or payment is stamped n).
\* A transaction's or payment's id (new_id, a random uuid) is its position.
event_clock(store) == Len(store.transactions) + Len(store.payments) + 1

(***************************************************************************)
(* Python dicts: a function whose domain is the set of keys.               *)
(***************************************************************************)
EmptyMap == [k \in {} |-> 0]
Put(m, k, v) == [x \in (DOMAIN m) \cup {k} |-> IF x = k THEN v ELSE m[x]]
Del(m, k) == [x \in (DOMAIN m) \ {k} |-> m[x]]

Range(s) == {s[i] : i \in DOMAIN s}

RECURSIVE SumSeq(_)
SumSeq(s) == IF s = <<>> THEN 0 ELSE Head(s) + SumSeq(Tail(s))

(***************************************************************************)
(* Monetary value codec.  An amount is tagged the way isinstance sees it:  *)
(* [t |-> "int", v |-> cents] or [t |-> "dec", v |-> thousandths of a unit].*)
(* A "dec" amount stands for a str, a Decimal, or a float whose str() is    *)
(* that decimal.  A float computed by from_cents is [t |-> "float", s, m, e]:*)
(* the binary floating-point number s * m * 2^e, m of FloatBits bits.       *)
(***************************************************************************)
IntAmt(n) == [t |-> "int", v |-> n]
DecAmt(m) == [t |-> "dec", v |-> m]
Float(s, m, e) == [t |-> "float", s |-> s, m |-> m, e |-> e]

\* The width of a float's significand.  CPython's float has 53 bits; the model
\* has FloatBits, so that the cents a float can no longer tell apart (from
\* 100 * 2^(FloatBits - 7) on) are within the integers TLC computes with.
FloatBits == 8
\* str(float) is searched among the decimals n * 10^k, -MaxFrac <= k <= MaxExp10.
MaxFrac == 4
MaxExp10 == 1

RECURSIVE Pow(_, _)
Pow(b, n) == IF n <= 0 THEN 1 ELSE b * Pow(b, n - 1)
Abs(x) == IF x < 0 THEN 0 - x ELSE x

\* num / den rounded to the nearest integer, ties to even (num >= 0, den > 0).
RoundHalfEven(num, den) ==
    LET q == num \div den
        r2 == 2 * (num % den)
    IN  IF r2 > den \/ (r2 = den /\ q % 2 = 1) THEN q + 1 ELSE q

\* float(Decimal(cents) / 100): the float nearest to cents / 100.
from_cents(cents) ==
    IF cents = 0 THEN Float(1, 0, 0)
    ELSE LET a == Abs(cents)
             num(e) == a * Pow(2, 0 - e)
             den(e) == 100 * Pow(2, e)
             e == CHOOSE x \in (0 - (FloatBits + 7))..4 :
                      /\ Pow(2, FloatBits - 1) * den(x) <= num(x)
                      /\ num(x) < Pow(2, FloatBits) * den(x)
             m == RoundHalfEven(num(e), den(e))
         IN  IF m = Pow(2, FloatBits)
             THEN Float(IF cents < 0 THEN 0 - 1 ELSE 1, Pow(2, FloatBits - 1), e + 1)
             ELSE Float(IF cents < 0 THEN 0 - 1 ELSE 1, m, e)

\* str(x) of a float x # 0 is the decimal n * 10^k of the fewest digits that
\* float() reads back as x and, among those, the one nearest to x.
\* float_dist: n * 10^k - x, scaled by 4 * 2^(-e) / 10^k or 4 * 10^(-k) / 2^e
\* (whichever is whole); float_gap: half the gap to the next float, likewise.
float_dist(x, n, k) ==
    4 * Pow(2, 0 - x.e) * Pow(10, k) * n - 4 * x.m * Pow(2, x.e) * Pow(10, 0 - k)

float_gap(x, k) == 2 * Pow(2, x.e) * Pow(10, 0 - k)

\* float(n * 10^k) = x: round to nearest, ties to the even significand; below a
\* power of two the floats are twice as dense.
reads_back(x, n, k) ==
    LET d == float_dist(x, n, k)
        up == float_gap(x, k)
        lo == IF x.m = Pow(2, FloatBits - 1) THEN up \div 2 ELSE up
    IN  /\ n > 0
        /\ IF d >= 0 THEN d < up \/ (d = up /\ x.m % 2 = 0)
           ELSE 0 - d < lo \/ (0 - d = lo /\ x.m % 2 = 0)

float_candidates(x, k) ==
    LET floor == (x.m * Pow(2, x.e) * Pow(10, 0 - k)) \div (Pow(2, 0 - x.e) * Pow(10, k))
    IN  {n \in {floor, floor + 1} : reads_back(x, n, k)}

float_str(x) ==
    LET ks == {k \in (0 - MaxFrac)..MaxExp10 : float_candidates(x, k) # {}}
        k == CHOOSE y \in ks : \A z \in ks : z <= y
        cands == float_candidates(x, k)
        n == CHOOSE y \in cands :
                 \A z \in cands :
                     \/ Abs(float_dist(x, y, k)) < Abs(float_dist(x, z, k))
                     \/ Abs(float_dist(x, y, k)) = Abs(float_dist(x, z, k))
                        /\ (y = z \/ y % 2 = 0)
    IN  [n |-> n, k |-> k]

\* to_cents of a float: Decimal(str(amount)), quantized half-up, times 100.
to_cents_float(amount) ==
    IF amount.m = 0 THEN 0
    ELSE LET d == float_str(amount)
             u == Pow(10, 0 - d.k - 2)
         IN  IF d.k >= 0 - 2 THEN amount.s * d.n * Pow(10, d.k + 2)
             ELSE amount.s * ((2 * d.n + u) \div (2 * u))

\* A plausible slip: the third fractional digit is cut off.
to_cents_truncates(amount) ==
    IF amount.t = "int" THEN amount.v
    ELSE IF amount.v >= 0 THEN amount.v \div 10
         ELSE 0 - ((0 - amount.v) \div 10)

\* to_cents of an int, or of an amount whose str() is a decimal given in
\* thousandths.
\* Decimal.quantize(Decimal("0.01"), ROUND_HALF_UP) * 100, on thousandths:
\* ties go away from zero.
to_cents(amount) ==
    IF amount.t = "int" THEN amount.v
    ELSE IF amount.v >= 0 THEN (amount.v + 5) \div 10
         ELSE 0 - ((0 - amount.v + 5) \div 10)

(***************************************************************************)
(* Store repository.                                                       *)
(***************************************************************************)
DEFAULT_STORE ==
    [ schema_version |-> 1,
      app |-> [currency_default |-> "CAD"],
      users |-> <<>>,
      groups |-> <<>>,
      transactions |-> <<>>,
      payments |-> <<>>,
      balances |-> [ updated_at |-> None,
                     by_group |-> EmptyMap,
                     global |-> [net |-> EmptyMap] ] ]

NoFile == [exists |-> FALSE]

read_json(d) == IF d.exists THEN d.doc ELSE DEFAULT_STORE

write_json_atomic(store) == [exists |-> TRUE, doc |-> store]

(***************************************************************************)
(* Lookup helpers.                                                         *)
(***************************************************************************)
index_by_id(items) == {items[i].id : i \in DOMAIN items}

\* A plausible slip: only the newest user record is compared.
find_user_id_by_name_newest(store, name) ==
    IF store.users # <<>> /\ store.users[Len(store.users)].name = name
    THEN store.users[Len(store.users)].id
    ELSE None

find_user_id_by_name(store, name) ==
    LET hits == {i \in DOMAIN store.users : store.users[i].name = name}
    IN  IF hits = {} THEN None
        ELSE store.users[CHOOSE i \in hits : \A j \in hits : i <= j].id

\* require_user / require_group raise ValueError; here: the error, or "" for none.
require_user(store, user_id) ==
    IF user_id \in index_by_id(store.users) THEN "" ELSE "UnknownUser"

require_group(store, group_id) ==
    IF group_id \in index_by_id(store.groups) THEN "" ELSE "UnknownGroup"

(***************************************************************************)
(* Balance netting: net[from][to] = amount_cents.                          *)
(***************************************************************************)
_get_net_map(root, scope, group_id) ==
    IF scope = "global" THEN root.global.net
    ELSE IF group_id \in DOMAIN root.by_group THEN root.by_group[group_id].net
    ELSE EmptyMap

_get_edge(m, a, b) ==
    IF a \in DOMAIN m /\ b \in DOMAIN m[a] THEN m[a][b] ELSE 0

\* A plausible slip: the entry is deleted and the emptied inner map is left.
_set_edge_keeps_empty(m, a, b, value) ==
    IF value <= 0
    THEN IF a \in DOMAIN m /\ b \in DOMAIN m[a]
         THEN Put(m, a, Del(m[a], b))
         ELSE m
    ELSE Put(m, a, Put(IF a \in DOMAIN m THEN m[a] ELSE EmptyMap, b, value))

_set_edge(m, a, b, value) ==
    IF value <= 0
    THEN IF a \in DOMAIN m /\ b \in DOMAIN m[a]
         THEN LET inner == Del(m[a], b)
              IN  IF DOMAIN inner = {} THEN Del(m, a) ELSE Put(m, a, inner)
         ELSE m
    ELSE Put(m, a, Put(IF a \in DOMAIN m THEN m[a] ELSE EmptyMap, b, value))

\* A plausible slip: the opposite edge is never cancelled.
apply_net_delta_nocancel(m, from_id, to_id, delta_cents) ==
    IF from_id = to_id \/ delta_cents = 0 THEN m
    ELSE IF delta_cents < 0
         THEN _set_edge(m, to_id, from_id, _get_edge(m, to_id, from_id) - delta_cents)
         ELSE _set_edge(m, from_id, to_id, _get_edge(m, from_id, to_id) + delta_cents)

\* A plausible slip: a negative delta is taken off the edge it names, and the
\* direction is never flipped.
apply_net_delta_no_flip(m, from_id, to_id, delta_cents) ==
    IF from_id = to_id \/ delta_cents = 0 THEN m
    ELSE IF delta_cents < 0
         THEN _set_edge(m, from_id, to_id, _get_edge(m, from_id, to_id) + delta_cents)
    ELSE LET m1 == _set_edge(m, from_id, to_id, _get_edge(m, from_id, to_id) + delta_cents)
             fwd == _get_edge(m1, from_id, to_id)
             rev == _get_edge(m1, to_id, from_id)
             cancel == IF fwd < rev THEN fwd ELSE rev
         IN  IF cancel > 0
             THEN _set_edge(_set_edge(m1, from_id, to_id, fwd - cancel),
                            to_id, from_id, rev - cancel)
             ELSE m1

\* A plausible slip: from_id == to_id is not tested and nothing is cancelled.
apply_net_delta_self_edges(m, from_id, to_id, delta_cents) ==
    IF delta_cents = 0 THEN m
    ELSE IF delta_cents < 0
         THEN _set_edge(m, to_id, from_id, _get_edge(m, to_id, from_id) - delta_cents)
         ELSE _set_edge(m, from_id, to_id, _get_edge(m, from_id, to_id) + delta_cents)

\* A plausible slip: when the new edge outweighs the opposite one, and when it
\* does not, the opposite edge is dropped whole instead of being reduced.
apply_net_delta_drops_opposite(m, from_id, to_id, delta_cents) ==
    IF from_id = to_id \/ delta_cents = 0 THEN m
    ELSE LET f == IF delta_cents < 0 THEN to_id ELSE from_id
             t == IF delta_cents < 0 THEN from_id ELSE to_id
             d == IF delta_cents < 0 THEN 0 - delta_cents ELSE delta_cents
             m1 == _set_edge(m, f, t, _get_edge(m, f, t) + d)
             fwd == _get_edge(m1, f, t)
             rev == _get_edge(m1, t, f)
             cancel == IF fwd < rev THEN fwd ELSE rev
         IN  IF cancel > 0
             THEN _set_edge(_set_edge(m1, f, t, fwd - cancel), t, f, 0)
             ELSE m1

RECURSIVE apply_net_delta(_, _, _, _)
apply_net_delta(m, from_id, to_id, delta_cents) ==
    IF from_id = to_id \/ delta_cents = 0 THEN m
    ELSE IF delta_cents < 0 THEN apply_net_delta(m, to_id, from_id, 0 - delta_cents)
    ELSE LET m1 == _set_edge(m, from_id, to_id, _get_edge(m, from_id, to_id) + delta_cents)
             fwd == _get_edge(m1, from_id, to_id)
             rev == _get_edge(m1, to_id, from_id)
             cancel == IF fwd < rev THEN fwd ELSE rev
         IN  IF cancel > 0
             THEN _set_edge(_set_edge(m1, from_id, to_id, fwd - cancel),
                            to_id, from_id, rev - cancel)
             ELSE m1

\* A plausible slip: the delta reaches the group's map and not the global one.
update_balances_group_only(store, group_id, from_id, to_id, amount_cents) ==
    LET net_g == apply_net_delta(_get_net_map(store.balances, "by_group", group_id),
                                 from_id, to_id, amount_cents)
    IN  [store EXCEPT !.balances =
            [ updated_at |-> now_iso,
              by_group |-> Put(store.balances.by_group, group_id, [net |-> net_g]),
              global |-> store.balances.global ]]

\* A plausible slip: the delta reaches the map of every group, not of one.
update_balances_every_group(store, group_id, from_id, to_id, amount_cents) ==
    LET groups == DOMAIN store.balances.by_group \cup {group_id}
        net_global == apply_net_delta(_get_net_map(store.balances, "global", None),
                                      from_id, to_id, amount_cents)
    IN  [store EXCEPT !.balances =
            [ updated_at |-> now_iso,
              by_group |-> [g \in groups |->
                  [net |-> apply_net_delta(_get_net_map(store.balances, "by_group", g),
                                           from_id, to_id, amount_cents)]],
              global |-> [net |-> net_global] ]]

update_balances_for_debt(store, group_id, from_id, to_id, amount_cents) ==
    LET net_g == apply_net_delta(_get_net_map(store.balances, "by_group", group_id),
                                 from_id, to_id, amount_cents)
        net_global == apply_net_delta(_get_net_map(store.balances, "global", None),
                                      from_id, to_id, amount_cents)
    IN  [store EXCEPT !.balances =
            [ updated_at |-> now_iso,
              by_group |-> Put(store.balances.by_group, group_id, [net |-> net_g]),
              global |-> [net |-> net_global] ]]

\* The edges of a net map, as get_edges / tool_get_group_balances list them.
get_edges(m) == UNION {{<<a, b, m[a][b]>> : b \in DOMAIN m[a]} : a \in DOMAIN m}

\* net = store["balances"]["by_group"].get(group_id, {}).get("net", {}), flattened.
group_edges(store, group_id) ==
    get_edges(IF group_id \in DOMAIN store.balances.by_group
              THEN store.balances.by_group[group_id].net
              ELSE EmptyMap)


(***************************************************************************)
(* Split helpers shared by the two transaction tools.                      *)
(***************************************************************************)
Share(user_id, cents) == [user_id |-> user_id, share_amount_cents |-> cents]

\* for s in share_entries: skip the payer, keep amt > 0.  In the equal split
\* the loop runs over participant_ids and reads shares[uid], which is the same
\* walk over the share list it stores.
\* A plausible slip: the amt > 0 test is missing, so zero shares become debts.
build_debts_unfiltered(share_entries, paid_by) ==
    LET keep == SelectSeq(share_entries, LAMBDA s : s.user_id # paid_by)
    IN  [i \in 1..Len(keep) |->
            [ from_user_id |-> keep[i].user_id,
              to_user_id |-> paid_by,
              amount_cents |-> keep[i].share_amount_cents ]]

build_debts(share_entries, paid_by) ==
    LET keep == SelectSeq(share_entries,
                          LAMBDA s : s.user_id # paid_by /\ s.share_amount_cents > 0)
    IN  [i \in 1..Len(keep) |->
            [ from_user_id |-> keep[i].user_id,
              to_user_id |-> paid_by,
              amount_cents |-> keep[i].share_amount_cents ]]

\* for d in debts: update_balances_for_debt(store, group_id, ...)
RECURSIVE apply_debts(_, _, _)
apply_debts(store, group_id, debts) ==
    IF debts = <<>> THEN store
    ELSE apply_debts(update_balances_for_debt(store, group_id, Head(debts).from_user_id,
                                              Head(debts).to_user_id,
                                              Head(debts).amount_cents),
                     group_id, Tail(debts))

(***************************************************************************)
(* tool_add_transaction_equal_split.  title, notes and created_at are      *)
(* stored as given and read by nothing; the model leaves them out.         *)
(***************************************************************************)
\* The ValueError the validation raises, "" when the call is accepted.
equal_split_error(store, group_id, total_amount, paid_by, participant_ids) ==
    IF require_group(store, group_id) # "" THEN "UnknownGroup"
    ELSE IF require_user(store, paid_by) # "" THEN "UnknownUser"
    ELSE IF paid_by \notin Range(participant_ids) THEN "PayerNotParticipant"
    ELSE IF \E uid \in Range(participant_ids) : require_user(store, uid) # ""
         THEN "UnknownUser"
    ELSE IF Len(participant_ids) <= 0 THEN "EmptyParticipants"
    ELSE ""

\* shares: Dict[str, int]: a later occurrence of a uid overwrites an earlier one.
equal_shares(total_cents, participant_ids) ==
    LET n == Len(participant_ids)
        base == total_cents \div n
        rem == total_cents % n
    IN  [uid \in Range(participant_ids) |->
            LET i == CHOOSE k \in 1..n : participant_ids[k] = uid
                                         /\ \A j \in (k + 1)..n : participant_ids[j] # uid
            IN  base + (IF i - 1 < rem THEN 1 ELSE 0)]

equal_split_tx(store, group_id, total_amount, paid_by, participant_ids) ==
    LET total_cents == to_cents(total_amount)
        shares == equal_shares(total_cents, participant_ids)
        share_list == [i \in 1..Len(participant_ids) |->
                          Share(participant_ids[i], shares[participant_ids[i]])]
    IN  [ id |-> Len(store.transactions) + 1,
          group_id |-> group_id,
          created_at |-> event_clock(store),
          currency |-> store.app.currency_default,
          total_amount_cents |-> total_cents,
          paid_by |-> paid_by,
          split |-> [ method |-> "equal",
                      participant_ids |-> participant_ids,
                      shares |-> share_list ],
          debts |-> build_debts(share_list, paid_by) ]

\* The store the accepted call saves.
equal_split_store(store, group_id, total_amount, paid_by, participant_ids) ==
    LET tx == equal_split_tx(store, group_id, total_amount, paid_by, participant_ids)
    IN  apply_debts([store EXCEPT !.transactions = Append(@, tx)], group_id, tx.debts)


(***************************************************************************)
(* tool_add_transaction_custom_split.  A share entry of the caller is      *)
(* [user_id, key, val]: user_id "" when the entry has none; key is the     *)
(* amount key it carries ("share_amount_cents", "share_amount" or "none"). *)
(* An item is [name, cost, assigned_member_ids]: name "" when it has       *)
(* neither "name" nor "item", cost.t = "none" when it has no cost key.     *)
(***************************************************************************)
NoAmt == [t |-> "none", v |-> 0]
Entry(user_id, key, val) == [user_id |-> user_id, key |-> key, val |-> val]
Item(name, cost, assigned) == [name |-> name, cost |-> cost, assigned_member_ids |-> assigned]

entry_cents(entry) ==
    IF entry.key = "share_amount_cents" THEN entry.val.v ELSE to_cents(entry.val)

\* The checks of one pass of the loop over shares, in the code's order.
entry_error(store, entry) ==
    IF entry.user_id = "" THEN "MalformedShare"
    ELSE IF entry.user_id \notin index_by_id(store.users) THEN "UnknownUser"
    ELSE IF entry.key = "none" THEN "MalformedShare"
    ELSE IF entry_cents(entry) < 0 THEN "InvalidAmount"
    ELSE ""

item_error(store, raw) ==
    IF raw.name = "" THEN "MalformedItem"
    ELSE IF raw.cost.t = "none" THEN "MalformedItem"
    ELSE IF \E uid \in Range(raw.assigned_member_ids) : require_user(store, uid) # ""
         THEN "UnknownUser"
    ELSE ""

\* The error of the first element of a list that has one, "" when none has.
FirstError(errs) ==
    LET bad == {i \in DOMAIN errs : errs[i] # ""}
    IN  IF bad = {} THEN "" ELSE errs[CHOOSE i \in bad : \A j \in bad : i <= j]

custom_share_entries(shares) ==
    [i \in 1..Len(shares) |-> Share(shares[i].user_id, entry_cents(shares[i]))]

custom_split_error(store, group_id, paid_by, shares, items) ==
    IF require_group(store, group_id) # "" THEN "UnknownGroup"
    ELSE IF require_user(store, paid_by) # "" THEN "UnknownUser"
    ELSE IF FirstError([i \in 1..Len(shares) |-> entry_error(store, shares[i])]) # ""
         THEN FirstError([i \in 1..Len(shares) |-> entry_error(store, shares[i])])
    ELSE IF SumSeq([i \in 1..Len(shares) |-> entry_cents(shares[i])]) <= 0
         THEN "InvalidAmount"
    ELSE FirstError([i \in 1..Len(items) |-> item_error(store, items[i])])

normalized_items(items) ==
    [i \in 1..Len(items) |->
        [ name |-> items[i].name,
          cost_cents |-> to_cents(items[i].cost),
          assigned_member_ids |-> items[i].assigned_member_ids ]]

\* A plausible slip: the payer's zero share is never appended.
custom_split_tx_no_payer_entry(store, group_id, paid_by, shares, items) ==
    LET share_entries == custom_share_entries(shares)
        total_cents == SumSeq([i \in 1..Len(share_entries) |->
                                  share_entries[i].share_amount_cents])
        tx == [ id |-> Len(store.transactions) + 1,
                group_id |-> group_id,
                created_at |-> event_clock(store),
                currency |-> store.app.currency_default,
                total_amount_cents |-> total_cents,
                paid_by |-> paid_by,
                split |-> [ method |-> "custom",
                            participant_ids |->
                                [i \in 1..Len(share_entries) |-> share_entries[i].user_id],
                            shares |-> share_entries ],
                debts |-> build_debts(share_entries, paid_by) ]
    IN  IF items # <<>> THEN tx @@ [items |-> normalized_items(items)] ELSE tx

custom_split_tx(store, group_id, paid_by, shares, items) ==
    LET given == custom_share_entries(shares)
        total_cents == SumSeq([i \in 1..Len(given) |-> given[i].share_amount_cents])
        \* Ensure payer appears in the split (even if their share is zero)
        share_entries == IF \E i \in 1..Len(given) : given[i].user_id = paid_by
                         THEN given
                         ELSE Append(given, Share(paid_by, 0))
        tx == [ id |-> Len(store.transactions) + 1,
                group_id |-> group_id,
                created_at |-> event_clock(store),
                currency |-> store.app.currency_default,
                total_amount_cents |-> total_cents,
                paid_by |-> paid_by,
                split |-> [ method |-> "custom",
                            participant_ids |->
                                [i \in 1..Len(share_entries) |-> share_entries[i].user_id],
                            shares |-> share_entries ],
                debts |-> build_debts(share_entries, paid_by) ]
    IN  IF items # <<>> THEN tx @@ [items |-> normalized_items(items)] ELSE tx

custom_split_store(store, group_id, paid_by, shares, items) ==
    LET tx == custom_split_tx(store, group_id, paid_by, shares, items)
    IN  apply_debts([store EXCEPT !.transactions = Append(@, tx)], group_id, tx.debts)

(***************************************************************************)
(* tool_add_payment.                                                       *)
(***************************************************************************)
\* A plausible slip: the amount check lets zero through.
payment_error_allows_zero(store, group_id, from_user_id, to_user_id, amount) ==
    IF require_group(store, group_id) # "" THEN "UnknownGroup"
    ELSE IF require_user(store, from_user_id) # "" THEN "UnknownUser"
    ELSE IF require_user(store, to_user_id) # "" THEN "UnknownUser"
    ELSE IF to_cents(amount) < 0 THEN "InvalidAmount"
    ELSE ""

payment_error(store, group_id, from_user_id, to_user_id, amount) ==
    IF require_group(store, group_id) # "" THEN "UnknownGroup"
    ELSE IF require_user(store, from_user_id) # "" THEN "UnknownUser"
    ELSE IF require_user(store, to_user_id) # "" THEN "UnknownUser"
    ELSE IF to_cents(amount) <= 0 THEN "InvalidAmount"
    ELSE ""

\* A plausible slip: the payment is applied with the sign of a debt.
payment_store_as_debt(store, group_id, from_user_id, to_user_id, amount) ==
    LET amount_cents == to_cents(amount)
        payment == [ id |-> Len(store.payments) + 1,
                     group_id |-> group_id,
                     created_at |-> event_clock(store),
                     currency |-> store.app.currency_default,
                     from_user_id |-> from_user_id,
                     to_user_id |-> to_user_id,
                     amount_cents |-> amount_cents ]
    IN  update_balances_for_debt([store EXCEPT !.payments = Append(@, payment)],
                                 group_id, from_user_id, to_user_id, amount_cents)

payment_store(store, group_id, from_user_id, to_user_id, amount) ==
    LET amount_cents == to_cents(amount)
        payment == [ id |-> Len(store.payments) + 1,
                     group_id |-> group_id,
                     created_at |-> event_clock(store),
                     currency |-> store.app.currency_default,
                     from_user_id |-> from_user_id,
                     to_user_id |-> to_user_id,
                     amount_cents |-> amount_cents ]
    IN  update_balances_for_debt([store EXCEPT !.payments = Append(@, payment)],
                                 group_id, from_user_id, to_user_id, 0 - amount_cents)

(***************************************************************************)
(* tool_rebuild_balances.                                                  *)
(***************************************************************************)
\* store["balances"]["by_group"].setdefault(gid, {"net": {}})
setdefault_group(store, gid) ==
    IF gid \in DOMAIN store.balances.by_group THEN store
    ELSE [store EXCEPT !.balances.by_group = Put(@, gid, [net |-> EmptyMap])]

RECURSIVE replay_transactions(_, _)
replay_transactions(store, txs) ==
    IF txs = <<>> THEN store
    ELSE replay_transactions(apply_debts(setdefault_group(store, Head(txs).group_id),
                                         Head(txs).group_id, Head(txs).debts),
                             Tail(txs))

RECURSIVE replay_payments(_, _)
replay_payments(store, pays) ==
    IF pays = <<>> THEN store
    ELSE replay_payments(
             update_balances_for_debt(setdefault_group(store, Head(pays).group_id),
                                      Head(pays).group_id, Head(pays).from_user_id,
                                      Head(pays).to_user_id, 0 - Head(pays).amount_cents),
             Tail(pays))

\* A plausible slip: the rebuild replays the transactions and forgets the payments.
rebuild_store_no_payments(store) ==
    LET cleared == [store EXCEPT !.balances =
                       [updated_at |-> None, by_group |-> EmptyMap,
                        global |-> [net |-> EmptyMap]]]
        replayed == replay_transactions(cleared, store.transactions)
    IN  [replayed EXCEPT !.balances.updated_at = now_iso]

\* A plausible slip: the rebuild starts from an empty store and keeps the
\* transactions only.
rebuild_store_drops_payments(store) ==
    LET cleared == [store EXCEPT !.payments = <<>>,
                                 !.balances =
                       [updated_at |-> None, by_group |-> EmptyMap,
                        global |-> [net |-> EmptyMap]]]
        replayed == replay_transactions(cleared, store.transactions)
    IN  [replayed EXCEPT !.balances.updated_at = now_iso]

\* A plausible slip: the rebuilt document is written with the schema's keys only.
rebuild_store_schema_keys_only(store) ==
    LET cleared == [store EXCEPT !.balances =
                       [updated_at |-> None, by_group |-> EmptyMap,
                        global |-> [net |-> EmptyMap]]]
        replayed == replay_payments(replay_transactions(cleared, store.transactions),
                                    store.payments)
    IN  [ schema_version |-> replayed.schema_version,
          app |-> replayed.app,
          users |-> replayed.users,
          groups |-> replayed.groups,
          transactions |-> replayed.transactions,
          payments |-> replayed.payments,
          balances |-> [replayed.balances EXCEPT !.updated_at = now_iso] ]

\* A plausible slip: the balances are not reset before the replay.
rebuild_store_accumulates(store) ==
    LET replayed == replay_payments(replay_transactions(store, store.transactions),
                                    store.payments)
    IN  [replayed EXCEPT !.balances.updated_at = now_iso]

rebuild_store(store) ==
    LET cleared == [store EXCEPT !.balances =
                       [updated_at |-> None, by_group |-> EmptyMap,
                        global |-> [net |-> EmptyMap]]]
        replayed == replay_payments(replay_transactions(cleared, store.transactions),
                                    store.payments)
    IN  [replayed EXCEPT !.balances.updated_at = now_iso]


(***************************************************************************)
(* Identity registry.                                                      *)
(***************************************************************************)
upsert_user_store(store, name) ==
    [store EXCEPT !.users = Append(@, [id |-> new_id(UserIdPool, store.users),
                                       name |-> name])]

\* A plausible slip: the member ids are not checked.
create_group_error_unchecked(store, member_ids) == ""

create_group_error(store, member_ids) ==
    IF \E uid \in Range(member_ids) : require_user(store, uid) # "" THEN "UnknownUser"
    ELSE ""

create_group_store(store, name, member_ids) ==
    LET group_id == new_id(GroupIdPool, store.groups)
    IN  [store EXCEPT
            !.groups = Append(@, [id |-> group_id, name |-> name,
                                  member_ids |-> member_ids]),
            !.balances.by_group = IF group_id \in DOMAIN @ THEN @
                                  ELSE Put(@, group_id, [net |-> EmptyMap]),
            !.balances.updated_at = now_iso]

(***************************************************************************)
(* The calls.  Each reads the store file, validates, and either fails      *)
(* before it has written anything or saves the whole new document.         *)
(***************************************************************************)
Result(op, err) == [op |-> op, ok |-> (err = ""), err |-> err]
NoCall == [op |-> "none"]
Events(store) == event_clock(store) - 1

tool_init_store ==
    /\ disk' = IF disk.exists THEN disk ELSE write_json_atomic(DEFAULT_STORE)
    /\ last' = Result("init_store", "")
    /\ UNCHANGED <<net, pending>>

\* A plausible slip: the lookup is skipped, so every call creates a user.
tool_upsert_user_always_creates(name) ==
    LET store == read_json(disk)
    IN  /\ Len(store.users) < Len(UserIdPool)
        /\ disk' = write_json_atomic(upsert_user_store(store, name))
        /\ last' = [ op |-> "upsert_user", ok |-> TRUE, err |-> "",
                     user_id |-> new_id(UserIdPool, store.users), created |-> TRUE ]
        /\ UNCHANGED <<net, pending>>

\* The call returns {"ok": True, "user_id": ..., "created": ...}.
tool_upsert_user(name) ==
    LET store == read_json(disk)
        existing == find_user_id_by_name(store, name)
    IN  /\ IF existing # None
           THEN disk' = disk
           ELSE /\ Len(store.users) < Len(UserIdPool)
                /\ disk' = write_json_atomic(upsert_user_store(store, name))
        /\ last' = [ op |-> "upsert_user", ok |-> TRUE, err |-> "",
                     user_id |-> IF existing # None THEN existing
                                 ELSE new_id(UserIdPool, store.users),
                     created |-> (existing = None) ]
        /\ UNCHANGED <<net, pending>>

tool_create_group(name, member_ids) ==
    LET store == read_json(disk)
        err == create_group_error(store, member_ids)
    IN  /\ IF err # ""
           THEN disk' = disk
           ELSE /\ Len(store.groups) < Len(GroupIdPool)
                /\ disk' = write_json_atomic(create_group_store(store, name, member_ids))
        /\ last' = Result("create_group", err)
        /\ UNCHANGED <<net, pending>>

tool_add_transaction_equal_split(group_id, total_amount, paid_by, participant_ids) ==
    LET store == read_json(disk)
        err == equal_split_error(store, group_id, total_amount, paid_by, participant_ids)
    IN  /\ IF err # ""
           THEN disk' = disk
           ELSE /\ Events(store) < MaxEvents
                /\ disk' = write_json_atomic(
                       equal_split_store(store, group_id, total_amount, paid_by,
                                         participant_ids))
        /\ last' = Result("add_transaction_equal_split", err)
        /\ UNCHANGED net

tool_add_transaction_custom_split(group_id, paid_by, shares, items) ==
    LET store == read_json(disk)
        err == custom_split_error(store, group_id, paid_by, shares, items)
    IN  /\ IF err # ""
           THEN disk' = disk
           ELSE /\ Events(store) < MaxEvents
                /\ disk' = write_json_atomic(
                       custom_split_store(store, group_id, paid_by, shares, items))
        /\ last' = Result("add_transaction_custom_split", err)
        /\ UNCHANGED net

\* A plausible slip: the amount is checked after the payment has been saved.
tool_add_payment_saves_first(group_id, from_user_id, to_user_id, amount) ==
    LET store == read_json(disk)
        err == payment_error(store, group_id, from_user_id, to_user_id, amount)
    IN  /\ IF err \notin {"", "InvalidAmount"}
           THEN disk' = disk
           ELSE /\ Events(store) < MaxEvents
                /\ disk' = write_json_atomic(
                       payment_store(store, group_id, from_user_id, to_user_id, amount))
        /\ last' = Result("add_payment", err)
        /\ UNCHANGED <<net, pending>>

tool_add_payment(group_id, from_user_id, to_user_id, amount) ==
    LET store == read_json(disk)
        err == payment_error(store, group_id, from_user_id, to_user_id, amount)
    IN  /\ IF err # ""
           THEN disk' = disk
           ELSE /\ Events(store) < MaxEvents
                /\ disk' = write_json_atomic(
                       payment_store(store, group_id, from_user_id, to_user_id, amount))
        /\ last' = Result("add_payment", err)
        /\ UNCHANGED <<net, pending>>

\* A plausible slip: the edges are read from the global map.
tool_get_group_balances_global(group_id) ==
    LET store == read_json(disk)
        err == require_group(store, group_id)
    IN  /\ disk' = disk
        /\ last' = IF err # ""
                   THEN Result("get_group_balances", err) @@ [group_id |-> group_id]
                   ELSE [ op |-> "get_group_balances", ok |-> TRUE, err |-> "",
                          group_id |-> group_id,
                          edges |-> get_edges(store.balances.global.net),
                          updated_at |-> store.balances.updated_at ]
        /\ UNCHANGED <<net, pending>>

\* The call returns {"ok": True, "group_id": ..., "edges": [...], "updated_at": ...};
\* the edges are listed in dict order, the model keeps them as a set.
tool_get_group_balances(group_id) ==
    LET store == read_json(disk)
        err == require_group(store, group_id)
    IN  /\ disk' = disk
        /\ last' = IF err # ""
                   THEN Result("get_group_balances", err) @@ [group_id |-> group_id]
                   ELSE [ op |-> "get_group_balances", ok |-> TRUE, err |-> "",
                          group_id |-> group_id,
                          edges |-> group_edges(store, group_id),
                          updated_at |-> store.balances.updated_at ]
        /\ UNCHANGED <<net, pending>>

tool_rebuild_balances ==
    /\ disk' = write_json_atomic(rebuild_store(read_json(disk)))
    /\ last' = Result("rebuild_balances", "")
    /\ UNCHANGED <<net, pending>>


(***************************************************************************)
(* Spec: the store life cycle.  The file is missing at first; every call   *)
(* may be made at any time, with arguments from the sets below (known and  *)
(* unknown ids, valid and invalid amounts, well- and ill-formed entries).  *)
(***************************************************************************)
Names == {"ann", "bob"}
GroupNames == {"trip"}
MemberLists == {<<"u1", "u2">>, <<"u1", NoUser>>}
SpecGroups == {"g1", "g2"}
SpecUsers == {"u1", "u2"}
GoodShares ==
    <<Entry("u1", "share_amount_cents", IntAmt(1)), Entry("u2", "share_amount", DecAmt(15))>>
GoodItems == <<Item("tea", IntAmt(3), <<"u1">>)>>

\* <<group_id, total_amount, paid_by, participant_ids>>: the well-formed calls, and
\* one call for each way the validation can reject one.
SpecEqualCalls ==
    {<<g, IntAmt(3), "u1", <<"u1", "u2">>>> : g \in SpecGroups}
    \cup { <<NoGroup, IntAmt(3), "u1", <<"u1", "u2">>>>,
           <<NoGroup, IntAmt(3), NoUser, <<>>>>,
           <<"g1", IntAmt(3), NoUser, <<NoUser>>>>,
           <<"g1", IntAmt(3), "u2", <<"u1">>>>,
           <<"g1", IntAmt(3), "u1", <<"u1", NoUser>>>>,
           <<"g1", IntAmt(3), "u1", <<>>>> }

\* <<group_id, paid_by, shares, items>>
SpecCustomCalls ==
    {<<"g1", paid_by, GoodShares, GoodItems>> : paid_by \in SpecUsers}
    \cup { <<NoGroup, "u1", GoodShares, GoodItems>>,
           <<"g1", NoUser, GoodShares, GoodItems>>,
           <<"g1", "u1", <<Entry(NoUser, "share_amount_cents", IntAmt(1))>>, <<>>>>,
           <<"g1", "u1", <<Entry("", "share_amount_cents", IntAmt(1))>>, <<>>>>,
           <<"g1", "u1", <<Entry("u1", "none", NoAmt)>>, <<>>>>,
           <<"g1", "u1", <<Entry("u2", "share_amount_cents", IntAmt(0 - 1))>>, <<>>>>,
           <<"g1", "u1", <<Entry("u1", "share_amount_cents", IntAmt(0))>>, <<>>>>,
           <<"g1", "u1", <<>>, <<>>>>,
           <<"g1", "u1", GoodShares, <<Item("", IntAmt(3), <<>>)>>>>,
           <<"g1", "u1", GoodShares, <<Item("tea", NoAmt, <<>>)>>>>,
           <<"g1", "u1", GoodShares, <<Item("tea", IntAmt(3), <<NoUser>>)>>>> }

\* <<group_id, from_user_id, to_user_id, amount>>
SpecPaymentCalls ==
    {<<g, p[1], p[2], DecAmt(15)>> : g \in SpecGroups, p \in {<<"u1", "u2">>, <<"u2", "u1">>}}
    \cup { <<NoGroup, "u1", "u2", DecAmt(15)>>,
           <<NoGroup, NoUser, "u2", DecAmt(15)>>,
           <<"g1", NoUser, "u2", DecAmt(15)>>,
           <<"g1", "u1", NoUser, DecAmt(15)>>,
           <<"g1", "u1", "u2", IntAmt(0)>>,
           <<"g1", "u1", "u2", DecAmt(0 - 15)>>,
           <<"g1", "u1", "u2", DecAmt(4)>> }

Init ==
    /\ disk = NoFile
    /\ last = Result("none", "")
    /\ net = EmptyMap
    /\ pending = NoCall

InitStore == tool_init_store
UpsertUser == \E name \in Names : tool_upsert_user(name)
CreateGroup ==
    \E name \in GroupNames, member_ids \in MemberLists : tool_create_group(name, member_ids)
AddEqualSplit ==
    \E c \in SpecEqualCalls :
        /\ tool_add_transaction_equal_split(c[1], c[2], c[3], c[4])
        /\ UNCHANGED pending
AddCustomSplit ==
    \E c \in SpecCustomCalls :
        /\ tool_add_transaction_custom_split(c[1], c[2], c[3], c[4])
        /\ UNCHANGED pending
AddPayment == \E c \in SpecPaymentCalls : tool_add_payment(c[1], c[2], c[3], c[4])
GetGroupBalances == \E g \in SpecGroups \cup {NoGroup} : tool_get_group_balances(g)
RebuildBalances == tool_rebuild_balances

Next ==
    \/ InitStore
    \/ UpsertUser
    \/ CreateGroup
    \/ AddEqualSplit
    \/ AddCustomSplit
    \/ AddPayment
    \/ GetGroupBalances
    \/ RebuildBalances

Spec == Init /\ [][Next]_vars

(***************************************************************************)
(* A registered store: what three upsert_user calls and two create_group   *)
(* calls leave on disk.  SpecLedger and SpecSplit start from it.           *)
(***************************************************************************)
RegisteredStore ==
    create_group_store(
        create_group_store(
            upsert_user_store(upsert_user_store(upsert_user_store(DEFAULT_STORE, "ann"),
                                                "bob"), "cy"),
            "trip", <<"u1", "u2", "u3">>),
        "home", <<"u1", "u2">>)

(***************************************************************************)
(* SpecLedger: transactions, payments and rebuilds on a registered store,  *)
(* in any order and in both groups.                                        *)
(***************************************************************************)
LedgerGroups == {"g1", "g2"}
\* paid_by of the splits; from_user_id and to_user_id of the payments.
LedgerPayers == {"u1", "u2"}
LedgerSenders == {"u2", "u3"}
LedgerParticipants == {<<"u1", "u2">>, <<"u2", "u1", "u3">>}
LedgerShares ==
    { <<Entry("u1", "share_amount_cents", IntAmt(1)),
        Entry("u3", "share_amount", DecAmt(15))>> }
LedgerPayees == {"u1", "u2"}
LedgerPayments == {IntAmt(1), DecAmt(15)}

InitLedger ==
    /\ disk = write_json_atomic(RegisteredStore)
    /\ last = Result("none", "")
    /\ net = EmptyMap
    /\ pending = NoCall

LedgerEqualSplit ==
    \E g \in LedgerGroups, paid_by \in LedgerPayers, ps \in LedgerParticipants :
        /\ tool_add_transaction_equal_split(g, IntAmt(3), paid_by, ps)
        /\ UNCHANGED pending
LedgerCustomSplit ==
    \E g \in LedgerGroups, paid_by \in LedgerPayers, shares \in LedgerShares :
        /\ tool_add_transaction_custom_split(g, paid_by, shares, <<>>)
        /\ UNCHANGED pending
LedgerPayment ==
    \E g \in LedgerGroups, f \in LedgerSenders, t \in LedgerPayees, amount \in LedgerPayments :
        tool_add_payment(g, f, t, amount)
LedgerRebuild == tool_rebuild_balances

NextLedger ==
    \/ LedgerEqualSplit
    \/ LedgerCustomSplit
    \/ LedgerPayment
    \/ LedgerRebuild

SpecLedger == InitLedger /\ [][NextLedger]_vars

(***************************************************************************)
(* SpecNet: apply_net_delta on one net map, from the empty map, with any   *)
(* from/to ids and any delta in -MaxDelta..MaxDelta.                       *)
(***************************************************************************)
NetUsers == {"u1", "u2", "u3"}

InitNet ==
    /\ disk = NoFile
    /\ last = [op |-> "none"]
    /\ net = EmptyMap
    /\ pending = NoCall

ApplyDelta ==
    \E from_id \in NetUsers, to_id \in NetUsers, delta \in (0 - MaxDelta)..MaxDelta :
        LET after == apply_net_delta(net, from_id, to_id, delta)
        IN  /\ \A e \in get_edges(after) : e[3] <= MaxEdge
            /\ net' = after
            /\ last' = [op |-> "apply_net_delta", from_id |-> from_id, to_id |-> to_id,
                        delta_cents |-> delta, before |-> net]
            /\ UNCHANGED <<disk, pending>>

NextNet == ApplyDelta

SpecNet == InitNet /\ [][NextNet]_vars


(***************************************************************************)
(* SpecSplit: one call on the registered store.  Init draws the call from  *)
(* a wide set: any total, integer or decimal, negative ones too; any       *)
(* participant list, with repeated and unknown ids; any share list; any    *)
(* payment.  A split call is made once, a payment call may be repeated.    *)
(***************************************************************************)
\* Bounds: the participant list has at most MaxLen ids, a share list at most
\* MaxShares entries.
MaxLen == 3
MaxShares == 2

SeqsUpTo(S, n) == UNION {[1..k -> S] : k \in 0..n}

SplitIds == {"u1", "u2", "u3"}
SplitDecimals == {0 - 15, 0 - 5, 0 - 4, 4, 5, 15, 1005}
SplitTotals ==
    {IntAmt(c) : c \in (0 - 2)..MaxCents} \cup {DecAmt(m) : m \in SplitDecimals}
SplitEntries ==
    {Entry(u, "share_amount_cents", IntAmt(c)) : u \in {"u1", "u2", ""}, c \in (0 - 1)..MaxCents}
    \cup {Entry(u, "share_amount", a) : u \in {"u1", "u2"},
                                          a \in {DecAmt(15), DecAmt(0 - 5), IntAmt(1)}}
    \cup {Entry("u1", "none", NoAmt)}

SplitCalls ==
    { [op |-> "equal", group_id |-> g, total_amount |-> total, paid_by |-> paid_by,
       participant_ids |-> ps] :
        g \in {"g1", NoGroup}, total \in SplitTotals, paid_by \in SplitIds \cup {NoUser},
        ps \in SeqsUpTo(SplitIds, MaxLen) }
    \cup
    { [op |-> "custom", group_id |-> "g1", paid_by |-> paid_by, shares |-> shares,
       items |-> items] :
        paid_by \in {"u1", "u3", NoUser}, shares \in SeqsUpTo(SplitEntries, MaxShares),
        items \in {<<>>, GoodItems} }
    \cup
    { [op |-> "payment", group_id |-> g, from_user_id |-> f, to_user_id |-> t,
       amount |-> amount] :
        g \in {"g1", NoGroup}, f \in {"u1", "u2", NoUser}, t \in {"u1", "u2", NoUser},
        amount \in SplitTotals }

InitSplit ==
    /\ disk = write_json_atomic(RegisteredStore)
    /\ last = Result("none", "")
    /\ net = EmptyMap
    /\ pending \in SplitCalls

SplitEqual ==
    /\ pending.op = "equal"
    /\ tool_add_transaction_equal_split(pending.group_id, pending.total_amount,
                                        pending.paid_by, pending.participant_ids)
    /\ pending' = NoCall

SplitCustom ==
    /\ pending.op = "custom"
    /\ tool_add_transaction_custom_split(pending.group_id, pending.paid_by,
                                         pending.shares, pending.items)
    /\ pending' = NoCall

SplitPayment ==
    /\ pending.op = "payment"
    /\ tool_add_payment(pending.group_id, pending.from_user_id, pending.to_user_id,
                        pending.amount)

NextSplit ==
    \/ SplitEqual
    \/ SplitCustom
    \/ SplitPayment

SpecSplit == InitSplit /\ [][NextSplit]_vars


(***************************************************************************)
(* SpecRegistry: the identity registry from a missing store file, with     *)
(* names that differ in case only, and rebuilds in between.                *)
(***************************************************************************)
RegistryNames == {"ann", "Ann", "bob"}
RegistryGroupNames == {"trip", "home"}
RegistryMembers == {<<"u1">>, <<"u2", "u1">>, <<"u1", NoUser>>}

RegistryInit == tool_init_store
RegistryUpsert == \E name \in RegistryNames : tool_upsert_user(name)
RegistryCreateGroup ==
    \E name \in RegistryGroupNames, member_ids \in RegistryMembers :
        tool_create_group(name, member_ids)
RegistryRebuild == tool_rebuild_balances

NextRegistry ==
    \/ RegistryInit
    \/ RegistryUpsert
    \/ RegistryCreateGroup
    \/ RegistryRebuild

SpecRegistry == Init /\ [][NextRegistry]_vars

(***************************************************************************)
(* SpecProfile: the Save Profile handler of frontend/main.py, on a store   *)
(* that the registry operations have written (or that is still missing).   *)
(* The session state is group_to_members, a list of [name, members] in the *)
(* dict's order, and issued: every user record written so far, in order.   *)
(* new_id is a random uuid, so an id is never handed out twice: the handler*)
(* draws the id after the ones issued, not after the ones now stored.      *)
(***************************************************************************)
Group(name, members) == [name |-> name, members |-> members]

\* if name_input not in group_to_members[g]: group_to_members[g].append(name_input)
session_add(group_to_members, name_input) ==
    [i \in 1..Len(group_to_members) |->
        IF name_input \in Range(group_to_members[i].members) THEN group_to_members[i]
        ELSE [group_to_members[i] EXCEPT !.members = Append(@, name_input)]]

\* dt.tool_upsert_user(store_path, name) on ctx = [disk, issued].
profile_upsert(ctx, name) ==
    LET store == read_json(ctx.disk)
        user == [id |-> new_id(UserIdPool, ctx.issued), name |-> name]
    IN  IF find_user_id_by_name(store, name) # None THEN ctx
        ELSE [ disk |-> write_json_atomic([store EXCEPT !.users = Append(@, user)]),
               issued |-> Append(ctx.issued, user) ]

RECURSIVE profile_upsert_all(_, _)
profile_upsert_all(ctx, names) ==
    IF names = <<>> THEN ctx
    ELSE profile_upsert_all(profile_upsert(ctx, Head(names)), Tail(names))

\* for members in group_to_members.values(): for m in members: ...
RECURSIVE all_members(_)
all_members(group_to_members) ==
    IF group_to_members = <<>> THEN <<>>
    ELSE Head(group_to_members).members \o all_members(Tail(group_to_members))

\* grp.setdefault("member_ids", []).append(profile_id), for each group without it.
join_groups(store, profile_id) ==
    [store EXCEPT !.groups =
        [i \in 1..Len(store.groups) |->
            IF profile_id \in Range(store.groups[i].member_ids) THEN store.groups[i]
            ELSE [store.groups[i] EXCEPT !.member_ids = Append(@, profile_id)]]]

\* for gname, members in group_to_members.items(): if gname not in
\* existing_group_names: upsert the members, then tool_create_group.
RECURSIVE create_missing_groups(_, _, _)
create_missing_groups(ctx, group_to_members, existing_group_names) ==
    IF group_to_members = <<>> THEN ctx
    ELSE LET g == Head(group_to_members)
             ctx1 == profile_upsert_all(ctx, g.members)
             store == read_json(ctx1.disk)
             member_ids == [i \in 1..Len(g.members) |->
                               find_user_id_by_name(store, g.members[i])]
             ctx2 == IF create_group_error(store, member_ids) # "" THEN ctx1
                     ELSE [ctx1 EXCEPT !.disk = write_json_atomic(
                               create_group_store(store, g.name, member_ids))]
         IN  IF g.name \in existing_group_names
             THEN create_missing_groups(ctx, Tail(group_to_members), existing_group_names)
             ELSE create_missing_groups(ctx2, Tail(group_to_members), existing_group_names)

\* The body of "if name_input:": what it leaves on disk and in the session.
save_profile(d, session, name_input) ==
    LET group_to_members == session_add(session.group_to_members, name_input)
        ctx0 == profile_upsert([disk |-> d, issued |-> session.issued], name_input)
        \* store = dt.read_json(p): the copy the handler edits and saves below
        store == read_json(ctx0.disk)
        profile_id == find_user_id_by_name(store, name_input)
        ctx1 == profile_upsert_all(ctx0, all_members(group_to_members))
        joined == join_groups(store, profile_id)
        modified == joined # store
        ctx2 == IF modified THEN [ctx1 EXCEPT !.disk = write_json_atomic(joined)] ELSE ctx1
        existing_group_names == {joined.groups[i].name : i \in 1..Len(joined.groups)}
        ctx3 == create_missing_groups(ctx2, group_to_members, existing_group_names)
    IN  [ disk |-> ctx3.disk,
          session |-> [op |-> "session", group_to_members |-> group_to_members,
                       issued |-> ctx3.issued] ]

ProfileNames == {"", "ann", "bob", "cy", "dee"}
ProfileSessions ==
    { <<Group("trip", <<"cy">>)>>,
      <<Group("trip", <<"ann", "cy">>), Group("home", <<"cy">>)>> }
\* The store file before the first save: missing, or written by upsert_user and
\* create_group calls.
ProfileDisks ==
    { NoFile,
      write_json_atomic(create_group_store(upsert_user_store(DEFAULT_STORE, "ann"),
                                           "trip", <<"u1">>)),
      write_json_atomic(create_group_store(
          upsert_user_store(upsert_user_store(DEFAULT_STORE, "ann"), "cy"),
          "trip", <<"u1", "u2">>)) }

InitProfile ==
    /\ disk \in ProfileDisks
    /\ last = Result("none", "")
    /\ net = EmptyMap
    /\ \E group_to_members \in ProfileSessions :
          pending = [op |-> "session", group_to_members |-> group_to_members,
                     issued |-> read_json(disk).users]

SaveProfile ==
    \E name_input \in ProfileNames :
        LET after == IF name_input = "" THEN [disk |-> disk, session |-> pending]
                     ELSE save_profile(disk, pending, name_input)
        IN  /\ disk' = after.disk
            /\ pending' = after.session
            /\ last' = Result("save_profile", "")
            /\ UNCHANGED net

NextProfile == SaveProfile

SpecProfile == InitProfile /\ [][NextProfile]_vars

(***************************************************************************)
(* SpecSave: write_json_atomic step by step.  A file is                    *)
(* [exists, doc, len, synced]: it holds the first len of the MaxChunks     *)
(* chunks json.dump writes for doc, and synced says that this content has  *)
(* reached the disk.  disk is the target path, pending.tmp the temporary   *)
(* one.  A crash may come between any two steps; content that was not      *)
(* synced may then be cut short.                                           *)
(***************************************************************************)
MaxChunks == 3

File(doc, len, synced) == [exists |-> TRUE, doc |-> doc, len |-> len, synced |-> synced]

\* A plausible slip: the document is written straight to the target path.
tmp_path_is_target == "target"

\* tmp = path.with_suffix(path.suffix + ".tmp")
tmp_path == "tmp"

\* tmp.open("w"): the file is created, or cut to length 0.
open_w(files, name, data) == [files EXCEPT ![name] = File(data, 0, FALSE)]

\* json.dump(data, f): the next chunk reaches the file.
write_chunk(files, name) == [files EXCEPT ![name].len = @ + 1, ![name].synced = FALSE]

\* f.flush(); os.fsync(f.fileno())
fsync(files, name) == [files EXCEPT ![name].synced = TRUE]

\* os.replace(src, dst): atomic on POSIX.
os_replace(files, src, dst) ==
    IF src = dst THEN files ELSE [files EXCEPT ![dst] = files[src], ![src] = NoFile]

\* What a file may hold after a crash.
after_crash(file) ==
    IF ~file.exists \/ file.synced THEN {file}
    ELSE {File(file.doc, k, TRUE) : k \in 0..file.len}

SaveFiles == [target |-> disk, tmp |-> pending.tmp]

SaveStep(files, pc) ==
    /\ disk' = files.target
    /\ pending' = [pending EXCEPT !.tmp = files.tmp, !.pc = pc]
    /\ last' = [op |-> "write_json_atomic", pc |-> pending.pc]
    /\ UNCHANGED net

SaveDocs ==
    { DEFAULT_STORE, upsert_user_store(DEFAULT_STORE, "ann"),
      upsert_user_store(upsert_user_store(DEFAULT_STORE, "ann"), "bob") }

InitSave ==
    /\ disk \in {NoFile} \cup {File(doc, MaxChunks, TRUE) : doc \in SaveDocs}
    /\ last = [op |-> "none"]
    /\ net = EmptyMap
    /\ pending = [op |-> "save", pc |-> "idle", data |-> DEFAULT_STORE, prev |-> disk,
                  tmp |-> NoFile]

\* write_json_atomic(path, data) is called.
SaveCall ==
    /\ pending.pc \in {"idle", "done", "crashed"}
    /\ \E data \in SaveDocs :
          /\ pending' = [pending EXCEPT !.pc = "open", !.data = data, !.prev = disk]
          /\ last' = [op |-> "write_json_atomic", pc |-> pending.pc]
          /\ UNCHANGED <<disk, net>>

SaveOpen ==
    /\ pending.pc = "open"
    /\ SaveStep(open_w(SaveFiles, tmp_path, pending.data), "dump")

SaveDump ==
    /\ pending.pc = "dump"
    /\ SaveFiles[tmp_path].len < MaxChunks
    /\ SaveStep(write_chunk(SaveFiles, tmp_path),
                IF SaveFiles[tmp_path].len + 1 = MaxChunks THEN "fsync" ELSE "dump")

SaveFsync ==
    /\ pending.pc = "fsync"
    /\ SaveStep(fsync(SaveFiles, tmp_path), "replace")

SaveReplace ==
    /\ pending.pc = "replace"
    /\ SaveStep(os_replace(SaveFiles, tmp_path, "target"), "done")

SaveCrash ==
    /\ pending.pc \in {"open", "dump", "fsync", "replace"}
    /\ \E target \in after_crash(disk), tmp \in after_crash(pending.tmp) :
          SaveStep([target |-> target, tmp |-> tmp], "crashed")

NextSave ==
    \/ SaveCall
    \/ SaveOpen
    \/ SaveDump
    \/ SaveFsync
    \/ SaveReplace
    \/ SaveCrash

SpecSave == InitSave /\ [][NextSave]_vars

(***************************************************************************)
(* SpecLoad: read_json on a path with no file.  Python passes dicts by     *)
(* reference, and the tools edit the dict they loaded in place, so the     *)
(* model keeps the objects in a heap: heap[1] is the module-level          *)
(* DEFAULT_STORE, the others are what the loads returned, in order.        *)
(***************************************************************************)
MaxLoads == 3
DefaultRef == 1

\* A plausible slip: the load returns DEFAULT_STORE itself.
load_missing_shared(heap) == [ref |-> DefaultRef, heap |-> heap]

\* return json.loads(json.dumps(DEFAULT_STORE)): a new object, equal to what
\* DEFAULT_STORE holds now.
load_missing(heap) == [ref |-> Len(heap) + 1, heap |-> Append(heap, heap[DefaultRef])]

LoadNames == {"ann", "bob"}

InitLoad ==
    /\ disk = NoFile
    /\ last = [op |-> "none"]
    /\ net = EmptyMap
    /\ pending = [op |-> "heap", heap |-> <<DEFAULT_STORE>>, held |-> {}]

\* store = read_json(p), p missing.
LoadMissing ==
    /\ ~disk.exists
    /\ Len(pending.heap) < MaxLoads + 1
    /\ LET got == load_missing(pending.heap)
       IN  /\ pending' = [pending EXCEPT !.heap = got.heap, !.held = @ \cup {got.ref}]
           /\ last' = [op |-> "read_json", ref |-> got.ref, held |-> pending.held]
    /\ UNCHANGED <<disk, net>>

\* store["users"].append(...) on a loaded store, as tool_upsert_user does before
\* it saves.
MutateLoaded ==
    \E ref \in pending.held, name \in LoadNames :
        /\ find_user_id_by_name(pending.heap[ref], name) = None
        /\ pending' = [pending EXCEPT !.heap[ref] = upsert_user_store(@, name)]
        /\ last' = [op |-> "mutate", ref |-> ref, held |-> pending.held]
        /\ UNCHANGED <<disk, net>>

NextLoad ==
    \/ LoadMissing
    \/ MutateLoaded

SpecLoad == InitLoad /\ [][NextLoad]_vars

(***************************************************************************)
(* SpecCorrupt: the tools on a file that exists and does not fit the       *)
(* schema.  Its content is tagged with what json.load makes of it: text    *)
(* that is not JSON, or a JSON value [t |-> "dict" | "list" | "str", v].   *)
(* read_json returns whatever json.load returns; the tools then fail where *)
(* Python fails: store["users"] on a list (TypeError) or without the key   *)
(* (KeyError), .append on a non-list (AttributeError), and so on.          *)
(***************************************************************************)
NotJson == [t |-> "text"]
JDict(v) == [t |-> "dict", v |-> v]
JList(v) == [t |-> "list", v |-> v]
JStr == [t |-> "str"]

\* json.load(f): raises json.JSONDecodeError (a ValueError) on text that is not JSON.
read_json_error(d) == IF d.exists /\ d.doc.t = "text" THEN "JSONDecodeError" ELSE ""

\* store[key] on what read_json returned: the error, "" when there is a value.
subscript_error(doc, key) ==
    IF doc.t # "dict" THEN "TypeError"
    ELSE IF key \notin DOMAIN doc.v THEN "KeyError"
    ELSE ""

\* tool_upsert_user on the loaded value: [err, doc], doc being what is saved
\* (the loaded value itself when nothing is).
corrupt_upsert_user(doc, name) ==
    LET users == doc.v.users
        hit == \E i \in DOMAIN users.v : users.v[i].name = name
        user == [id |-> new_id(UserIdPool, users.v), name |-> name]
    IN  IF subscript_error(doc, "users") # ""
        THEN [err |-> subscript_error(doc, "users"), doc |-> doc]
        ELSE IF users.t = "str" THEN [err |-> "TypeError", doc |-> doc]
        ELSE IF users.t = "dict" THEN [err |-> "AttributeError", doc |-> doc]
        ELSE IF hit THEN [err |-> "", doc |-> doc]
        ELSE [err |-> "", doc |-> JDict(Put(doc.v, "users", JList(Append(users.v, user))))]

\* tool_rebuild_balances on the loaded value: store["balances"] = {...}, then
\* the loops over store.get("transactions", []) and store.get("payments", []).
corrupt_rebuild(doc) ==
    IF doc.t # "dict" THEN [err |-> "TypeError", doc |-> doc]
    ELSE IF \E key \in {"transactions", "payments"} :
                key \in DOMAIN doc.v /\ ~(doc.v[key].t = "list" /\ doc.v[key].v = <<>>)
         THEN [err |-> "TypeError", doc |-> doc]
    ELSE [err |-> "",
          doc |-> JDict(Put(doc.v, "balances",
                            JDict([updated_at |-> now_iso, by_group |-> EmptyMap,
                                   global |-> [net |-> EmptyMap]])))]

\* require_group on the loaded value (index_by_id(store["groups"])).
corrupt_require_group(doc, group_id) ==
    IF subscript_error(doc, "groups") # "" THEN subscript_error(doc, "groups")
    ELSE IF doc.v.groups.t = "str" THEN "TypeError"
    ELSE "UnknownGroup"

CorruptNames == {"ann", "bob", "cy"}
CorruptDocs ==
    { NotJson,
      JDict(EmptyMap),
      JList(<<>>),
      JDict([users |-> JList(<<>>)]),
      JDict([users |-> JStr]),
      JDict([users |-> JDict(EmptyMap)]),
      JDict([users |-> JList(<<>>), groups |-> JStr]),
      JDict([users |-> JList(<<>>), transactions |-> JStr]) }

InitCorrupt ==
    /\ \E doc \in CorruptDocs : disk = [exists |-> TRUE, doc |-> doc]
    /\ last = Result("none", "")
    /\ net = EmptyMap
    /\ pending = [op |-> "corrupt", original |-> disk]

CorruptStep(op, err, doc) ==
    /\ disk' = IF err = "" /\ doc # disk.doc THEN [exists |-> TRUE, doc |-> doc] ELSE disk
    /\ last' = Result(op, err)
    /\ UNCHANGED <<net, pending>>

\* if not p.exists(): ...; the file exists, nothing is read.
CorruptInitStore ==
    /\ disk.exists
    /\ CorruptStep("init_store", "", disk.doc)

CorruptUpsertUser ==
    \E name \in CorruptNames :
        IF read_json_error(disk) # ""
        THEN CorruptStep("upsert_user", read_json_error(disk), disk.doc)
        ELSE LET r == corrupt_upsert_user(disk.doc, name)
             IN  /\ r.doc # disk.doc => Len(r.doc.v.users.v) <= Cardinality(CorruptNames)
                 /\ CorruptStep("upsert_user", r.err, r.doc)

CorruptRebuild ==
    IF read_json_error(disk) # ""
    THEN CorruptStep("rebuild_balances", read_json_error(disk), disk.doc)
    ELSE LET r == corrupt_rebuild(disk.doc)
         IN  CorruptStep("rebuild_balances", r.err, r.doc)

CorruptGetBalances ==
    \E g \in {"g1"} :
      /\ disk.exists
      /\ CorruptStep("get_group_balances",
                     IF read_json_error(disk) # "" THEN read_json_error(disk)
                     ELSE corrupt_require_group(disk.doc, g),
                     disk.doc)

NextCorrupt ==
    \/ CorruptInitStore
    \/ CorruptUpsertUser
    \/ CorruptRebuild
    \/ CorruptGetBalances

SpecCorrupt == InitCorrupt /\ [][NextCorrupt]_vars

(***************************************************************************)
(* SpecIngest: backend/splitter.py process().  members is a list of        *)
(* [id, name]; the parsed bill a list of [item, cost] with a float cost;   *)
(* item_assignments a dict from item names to lists of member ids or       *)
(* names.  The agent between the adapter's arithmetic and its reading of   *)
(* the ledger is a language model with the ledger tools: it may record the *)
(* custom split it was handed or record nothing, and it reports whatever   *)
(* balance summary it likes.                                               *)
(***************************************************************************)
Member(id, name) == [id |-> id, name |-> name]
BillItem(item, cost) == [item |-> item, cost |-> cost]

\* str.strip(): the one item name of the model that carries white space.
strip(name) == IF name = "pie " THEN "pie" ELSE name

\* resolve_member: the id, None for ValueError("Unknown member identifier").
\* member_id_by_name is a dict: the last member of a name owns it.
resolve_member(members, identifier) ==
    LET named == {i \in DOMAIN members : members[i].name = identifier}
    IN  IF \E i \in DOMAIN members : members[i].id = identifier THEN identifier
        ELSE IF named # {} THEN members[CHOOSE i \in named : \A j \in named : j <= i].id
        ELSE None

\* item_assignments.get(item.item) or item_assignments.get(item.item.strip(), [])
raw_assignees(item_assignments, item) ==
    IF item.item \in DOMAIN item_assignments /\ item_assignments[item.item] # <<>>
    THEN item_assignments[item.item]
    ELSE IF strip(item.item) \in DOMAIN item_assignments
         THEN item_assignments[strip(item.item)]
         ELSE <<>>

\* [uid for uid in assigned_ids if not (uid in seen or seen.add(uid))]
RECURSIVE dedupe(_)
dedupe(ids) ==
    IF ids = <<>> THEN <<>>
    ELSE LET front == dedupe(SubSeq(ids, 1, Len(ids) - 1))
             uid == ids[Len(ids)]
         IN  IF uid \in Range(front) THEN front ELSE Append(front, uid)

\* A plausible slip: an item nobody is assigned to is charged to the first member.
assigned_ids_first_member(members, item_assignments, item) ==
    LET raw == raw_assignees(item_assignments, item)
    IN  dedupe(IF raw # <<>>
               THEN [i \in 1..Len(raw) |-> resolve_member(members, raw[i])]
               ELSE <<members[1].id>>)

\* The ids an item is charged to, before the identifiers are known to resolve.
assigned_ids(members, item_assignments, item) ==
    LET raw == raw_assignees(item_assignments, item)
    IN  dedupe(IF raw # <<>>
               THEN [i \in 1..Len(raw) |-> resolve_member(members, raw[i])]
               ELSE [i \in 1..Len(members) |-> members[i].id])

\* A plausible slip: the extra cents go to the last assignees.
item_shares_extra_last(cost_cents, ids) ==
    LET n == Len(ids)
        base == cost_cents \div n
        remainder == cost_cents % n
    IN  [idx \in 1..n |-> Share(ids[idx], base + (IF n - idx < remainder THEN 1 ELSE 0))]

\* base = cost_cents // n; share = base + (1 if idx < remainder else 0)
item_shares(cost_cents, ids) ==
    LET n == Len(ids)
        base == cost_cents \div n
        remainder == cost_cents % n
    IN  [idx \in 1..n |-> Share(ids[idx], base + (IF idx - 1 < remainder THEN 1 ELSE 0))]

\* shares_by_user_cents[user_id] += share, on a dict that keeps insertion order.
RECURSIVE add_shares(_, _)
add_shares(by_user, shares) ==
    IF shares = <<>> THEN by_user
    ELSE LET h == Head(shares)
             hit == {i \in DOMAIN by_user : by_user[i].user_id = h.user_id}
             i == CHOOSE x \in hit : TRUE
         IN  add_shares(IF hit = {} THEN Append(by_user, h)
                        ELSE [by_user EXCEPT ![i].share_amount_cents = @ + h.share_amount_cents],
                        Tail(shares))

\* The loop over parsed_bill.items, then the payer's zero entry.
RECURSIVE shares_by_user_cents(_, _, _)
shares_by_user_cents(members, item_assignments, items) ==
    IF items = <<>> THEN <<>>
    ELSE LET item == items[Len(items)]
         IN  add_shares(shares_by_user_cents(members, item_assignments,
                                             SubSeq(items, 1, Len(items) - 1)),
                        item_shares(to_cents(item.cost),
                                    assigned_ids(members, item_assignments, item)))

bill_items_payload(members, item_assignments, items) ==
    [i \in 1..Len(items) |->
        Item(items[i].item, IntAmt(to_cents(items[i].cost)),
             assigned_ids(members, item_assignments, items[i]))]

\* What process() has worked out when it calls the agent: the error that ends
\* it before that, or the arguments of the custom split it asks for.
prepare(members, items, item_assignments, paid_by) ==
    LET paid_by_id == resolve_member(members, paid_by)
        payload == bill_items_payload(members, item_assignments, items)
        by_user == shares_by_user_cents(members, item_assignments, items)
        with_payer == IF \E i \in DOMAIN by_user : by_user[i].user_id = paid_by_id
                      THEN by_user ELSE Append(by_user, Share(paid_by_id, 0))
    IN  IF members = <<>> THEN [err |-> "EmptyMembers"]
        ELSE IF paid_by_id = None THEN [err |-> "UnknownMember"]
        ELSE IF \E i \in DOMAIN payload : None \in Range(payload[i].assigned_member_ids)
             THEN [err |-> "UnknownMember"]
        ELSE [ err |-> "",
               paid_by |-> paid_by_id,
               total_cents |-> SumSeq([i \in 1..Len(items) |-> to_cents(items[i].cost)]),
               shares |-> [i \in 1..Len(with_payer) |->
                              Entry(with_payer[i].user_id, "share_amount_cents",
                                    IntAmt(with_payer[i].share_amount_cents))],
               items |-> payload ]

\* The agent's tool call: add_transaction_custom_split with the arguments of the
\* prompt; a ValueError of the tool goes back to the agent and nothing is saved.
agent_records(d, group_id, prep) ==
    LET store == read_json(d)
    IN  IF custom_split_error(store, group_id, prep.paid_by, prep.shares, prep.items) = ""
        THEN write_json_atomic(
                 custom_split_store(store, group_id, prep.paid_by, prep.shares, prep.items))
        ELSE d

\* balance_by_user_cents after the loop over the edges: the members start at 0,
\* an edge takes from from_user_id and gives to to_user_id.
RECURSIVE edge_total(_)
edge_total(edges) ==
    IF edges = {} THEN 0
    ELSE LET e == CHOOSE x \in edges : TRUE IN e[3] + edge_total(edges \ {e})

balance_by_user_cents(members, edges) ==
    [uid \in {members[i].id : i \in DOMAIN members} |->
        edge_total({e \in edges : e[2] = uid}) - edge_total({e \in edges : e[1] = uid})]

\* Lines 209-220: the balances are read back from the ledger.  An edge of a
\* user that is not in members is a KeyError.
verified_balances(d, group_id, members) ==
    LET store == read_json(d)
        edges == group_edges(store, group_id)
        ids == {members[i].id : i \in DOMAIN members}
        cents == balance_by_user_cents(members, edges)
    IN  IF require_group(store, group_id) # "" THEN [err |-> "UnknownGroup"]
        ELSE IF \E e \in edges : e[1] \notin ids \/ e[2] \notin ids THEN [err |-> "KeyError"]
        ELSE [ err |-> "",
               balances |->
                   [name \in {members[i].name : i \in DOMAIN members} |->
                       LET named == {i \in DOMAIN members : members[i].name = name}
                       IN  from_cents(cents[members[CHOOSE i \in named :
                                                       \A j \in named : j <= i].id])] ]

\* A plausible slip: the agent's summary is returned.
process_result_reported(out, prep, report) ==
    [ op |-> "process", ok |-> TRUE, err |-> "", balances |-> report,
      reported |-> report, prep |-> prep ]

\* What process() returns, next to what it handed to and heard from the agent.
process_result(out, prep, report) ==
    [ op |-> "process", ok |-> TRUE, err |-> "", balances |-> out.balances,
      reported |-> report, prep |-> prep ]

Ann == Member("u1", "ann")
Bob == Member("u2", "bob")
Cy == Member("u3", "cy")
IngestMembers == {<<>>, <<Ann, Bob>>, <<Bob, Ann>>, <<Ann, Bob, Cy>>}
IngestItems ==
    {BillItem("tea", DecAmt(25)), BillItem("pie ", DecAmt(50)), BillItem("fee", DecAmt(0 - 15))}
IngestBills == SeqsUpTo(IngestItems, 2) \ {<<>>}
IngestAssignments ==
    { EmptyMap,
      [n \in {"tea"} |-> <<"u2", "ann">>],
      [n \in {"tea", "pie"} |-> IF n = "tea" THEN <<>> ELSE <<"bob", "u2", "bob">>],
      [n \in {"tea", "fee"} |-> IF n = "tea" THEN <<"u3">> ELSE <<"u1", "u2">>],
      [n \in {"pie "} |-> <<"zed">>] }
IngestPayers == {"u1", "bob", "zed"}
IngestDisks ==
    { NoFile,
      write_json_atomic(RegisteredStore),
      write_json_atomic(equal_split_store(RegisteredStore, "g1", IntAmt(3), "u1",
                                          <<"u1", "u3">>)) }
AgentActs == {"records", "idle"}
AgentReports == {EmptyMap, [n \in {"ann"} |-> from_cents(7)]}

InitIngest ==
    /\ disk \in IngestDisks
    /\ last = Result("none", "")
    /\ net = EmptyMap
    /\ pending \in { [op |-> "process", group_id |-> "g1", members |-> members,
                       items |-> items, item_assignments |-> item_assignments,
                       paid_by |-> paid_by] :
                         members \in IngestMembers, items \in IngestBills,
                         item_assignments \in IngestAssignments, paid_by \in IngestPayers }

Process ==
    /\ pending.op = "process"
    /\ LET created == IF disk.exists THEN disk ELSE write_json_atomic(DEFAULT_STORE)
           prep == prepare(pending.members, pending.items, pending.item_assignments,
                           pending.paid_by)
       IN  IF prep.err # ""
           THEN /\ disk' = created
                /\ last' = Result("process", prep.err)
           ELSE \E act \in AgentActs, report \in AgentReports :
                    LET d == IF act = "records"
                             THEN agent_records(created, pending.group_id, prep)
                             ELSE created
                        out == verified_balances(d, pending.group_id, pending.members)
                    IN  /\ disk' = d
                        /\ last' = IF out.err # ""
                                   THEN Result("process", out.err) @@ [prep |-> prep]
                                   ELSE process_result(out, prep, report)
    /\ pending' = NoCall
    /\ UNCHANGED net

NextIngest == Process

SpecIngest == InitIngest /\ [][NextIngest]_vars

(***************************************************************************)
(* SpecCodec: the value codec alone.  Init draws a number of cents, to be  *)
(* converted by from_cents and back by to_cents, or a decimal amount, to   *)
(* be converted by to_cents.                                               *)
(***************************************************************************)
\* Cents range over -MaxRoundTrip..MaxRoundTrip, decimal amounts (in thousandths)
\* over -MaxThousandths..MaxThousandths and the ten thousandths from 10.000 on.
MaxRoundTrip == 260
MaxThousandths == 30

CodecDecimals ==
    {DecAmt(v) : v \in (0 - MaxThousandths)..MaxThousandths}
    \cup {DecAmt(10000 + v) : v \in 0..10}
    \cup {DecAmt(0 - (10000 + v)) : v \in 0..10}

InitCodec ==
    /\ disk = NoFile
    /\ last = [op |-> "none"]
    /\ net = EmptyMap
    /\ pending \in {[op |-> "from_cents", cents |-> c] :
                        c \in (0 - MaxRoundTrip)..MaxRoundTrip}
                   \cup {[op |-> "to_cents", amount |-> a] : a \in CodecDecimals}

\* to_cents(from_cents(cents))
RoundTrip ==
    /\ pending.op = "from_cents"
    /\ last' = [ op |-> "round_trip", cents |-> pending.cents,
                 dollars |-> from_cents(pending.cents),
                 back |-> to_cents_float(from_cents(pending.cents)) ]
    /\ pending' = NoCall
    /\ UNCHANGED <<disk, net>>

ToCents ==
    /\ pending.op = "to_cents"
    /\ last' = [op |-> "to_cents", amount |-> pending.amount, cents |-> to_cents(pending.amount)]
    /\ pending' = NoCall
    /\ UNCHANGED <<disk, net>>

NextCodec ==
    \/ RoundTrip
    \/ ToCents

SpecCodec == InitCodec /\ [][NextCodec]_vars

(***************************************************************************)
(* SpecExtras: the tools that load and re-save the document, on a store    *)
(* written by a later version: a top-level key and fields on a user, a     *)
(* group, a transaction and a payment that this code knows nothing about.  *)
(* json.load and json.dump keep whatever they read; the tools change the   *)
(* loaded dict in place.                                                   *)
(***************************************************************************)
ExtrasBase ==
    create_group_store(
        upsert_user_store(upsert_user_store(upsert_user_store(DEFAULT_STORE, "ann"),
                                            "bob"), "cy"),
        "trip", <<"u1", "u2", "u3">>)

\* The unknown fields, on the first record of each collection that has one.
with_extras(store) ==
    [store EXCEPT
        !.users[1] = @ @@ [email |-> "ann@example.org"],
        !.groups[1] = @ @@ [color |-> "red"],
        !.transactions = IF @ = <<>> THEN @
                         ELSE [@ EXCEPT ![1] = @ @@ [receipt |-> "r1"]],
        !.payments = IF @ = <<>> THEN @
                     ELSE [@ EXCEPT ![1] = @ @@ [memo |-> "cash"]]]
    @@ [x_audit |-> "v2"]

ExtrasDisks ==
    { write_json_atomic(with_extras(
          equal_split_store(ExtrasBase, "g1", IntAmt(3), "u1", <<"u1", "u2">>))),
      write_json_atomic(with_extras(
          payment_store(ExtrasBase, "g1", "u2", "u1", IntAmt(1)))) }

InitExtras ==
    /\ disk \in ExtrasDisks
    /\ last = Result("none", "")
    /\ net = EmptyMap
    /\ pending = NoCall

ExtrasUpsert == \E name \in {"ann", "dee"} : tool_upsert_user(name)
ExtrasCreateGroup == \E member_ids \in {<<"u1", "u2">>} : tool_create_group("home", member_ids)
ExtrasEqualSplit ==
    \E paid_by \in {"u1", "u2"} :
        /\ tool_add_transaction_equal_split("g1", IntAmt(3), paid_by, <<"u1", "u2">>)
        /\ UNCHANGED pending
ExtrasCustomSplit ==
    \E shares \in LedgerShares :
        /\ tool_add_transaction_custom_split("g1", "u1", shares, GoodItems)
        /\ UNCHANGED pending
ExtrasPayment == \E f \in {"u2", "u3"} : tool_add_payment("g1", f, "u1", IntAmt(1))
ExtrasRebuild == tool_rebuild_balances

NextExtras ==
    \/ ExtrasUpsert
    \/ ExtrasCreateGroup
    \/ ExtrasEqualSplit
    \/ ExtrasCustomSplit
    \/ ExtrasPayment
    \/ ExtrasRebuild

SpecExtras == InitExtras /\ [][NextExtras]_vars

(***************************************************************************)
(* SpecSelf: apply_net_delta on the map net, and payments on a registered  *)
(* store, between two users and from each of them to themselves.           *)
(***************************************************************************)
SelfUsers == {"u1", "u2"}
SelfDeltas == {0 - 1, 0, 1}

SelfApplyDelta ==
    \E from_id \in SelfUsers, to_id \in SelfUsers, delta \in SelfDeltas :
        LET after == apply_net_delta(net, from_id, to_id, delta)
        IN  /\ \A e \in get_edges(after) : e[3] <= MaxDelta
            /\ net' = after
            /\ last' = [op |-> "apply_net_delta", from_id |-> from_id, to_id |-> to_id,
                        delta_cents |-> delta, before |-> net]
            /\ UNCHANGED <<disk, pending>>

SelfPayment ==
    \E f \in SelfUsers, t \in SelfUsers : tool_add_payment("g1", f, t, IntAmt(1))

NextSelf ==
    \/ SelfApplyDelta
    \/ SelfPayment

SpecSelf == InitLedger /\ [][NextSelf]_vars

(***************************************************************************)
(* SpecOrder: apply_net_delta on one net map that starts empty, as in      *)
(* SpecNet, with the multiset of the updates applied so far kept beside    *)
(* the map (pending.bag: update |-> how many times; pending.n: how many).  *)
(***************************************************************************)
\* At most MaxUpdates updates are applied.
MaxUpdates == 3

OrderUsers == {"u1", "u2", "u3"}
OrderDeltas == {0 - 1, 0, 2}

BagAdd(bag, u) == IF u \in DOMAIN bag THEN [bag EXCEPT ![u] = @ + 1] ELSE Put(bag, u, 1)
BagRemove(bag, u) == IF bag[u] = 1 THEN Del(bag, u) ELSE [bag EXCEPT ![u] = @ - 1]

InitOrder ==
    /\ disk = NoFile
    /\ last = [op |-> "none"]
    /\ net = EmptyMap
    /\ pending = [bag |-> EmptyMap, n |-> 0]

OrderApply ==
    \E from_id \in OrderUsers, to_id \in OrderUsers, delta \in OrderDeltas :
        /\ pending.n < MaxUpdates
        /\ net' = apply_net_delta(net, from_id, to_id, delta)
        /\ pending' = [bag |-> BagAdd(pending.bag, <<from_id, to_id, delta>>),
                       n |-> pending.n + 1]
        /\ last' = [op |-> "apply_net_delta", from_id |-> from_id, to_id |-> to_id,
                    delta_cents |-> delta]
        /\ UNCHANGED disk

NextOrder == OrderApply

SpecOrder == InitOrder /\ [][NextOrder]_vars

(***************************************************************************)
(* SpecRace: two processes run tool_add_payment on the same store path.    *)
(* Each call is two steps, its read_json and the rest (the validation, the *)
(* change of the document in memory and write_json_atomic), and the steps  *)
(* of the two processes interleave freely: nothing in the code locks the   *)
(* file.  pending.ws is each writer's position and loaded document,        *)
(* pending.acked the payment ids returned with ok so far, pending.overlap  *)
(* whether a writer ever loaded while the other was between its two steps. *)
(***************************************************************************)
\* Each writer makes at most MaxWrites calls.
MaxWrites == 2

Writers == {1, 2}
\* new_id("p") of a writer's k-th call: a random uuid, here an id no other call has.
race_new_id(w, k) == 10 * w + k

\* <<group_id, from_user_id, to_user_id, amount>>
RaceCalls ==
    { <<"g1", "u2", "u1", IntAmt(1)>>,
      <<"g1", "u3", "u1", DecAmt(15)>>,
      <<"g1", "u2", "u1", IntAmt(0)>> }

\* A plausible slip: the document is written with the new payment alone.
writer_store_newest_only(store, call, pay_id) ==
    LET new == payment_store(store, call[1], call[2], call[3], call[4])
    IN  [new EXCEPT !.payments = <<[new.payments[Len(new.payments)] EXCEPT !.id = pay_id]>>]

\* The document a writer saves: the one it loaded, with its payment appended
\* and applied to the balances.
writer_store(store, call, pay_id) ==
    LET new == payment_store(store, call[1], call[2], call[3], call[4])
    IN  [new EXCEPT !.payments[Len(new.payments)].id = pay_id]

InitRace ==
    /\ disk = write_json_atomic(RegisteredStore)
    /\ last = Result("none", "")
    /\ net = EmptyMap
    /\ pending = [ ws |-> [w \in Writers |-> [pc |-> "idle", done |-> 0]],
                   acked |-> {},
                   overlap |-> FALSE ]

\* store = read_json(p)
RaceLoad ==
    \E w \in Writers, call \in RaceCalls :
        /\ pending.ws[w].pc = "idle"
        /\ pending.ws[w].done < MaxWrites
        /\ pending' = [pending EXCEPT
              !.ws[w] = [pc |-> "loaded", done |-> @.done,
                         store |-> read_json(disk), call |-> call],
              !.overlap = @ \/ \E v \in Writers \ {w} : pending.ws[v].pc = "loaded"]
        /\ UNCHANGED <<disk, last, net>>

\* require_group ... write_json_atomic(p, store); return {"ok": True, ...}
RaceSave ==
    \E w \in Writers :
        /\ pending.ws[w].pc = "loaded"
        /\ LET store == pending.ws[w].store
               call == pending.ws[w].call
               err == payment_error(store, call[1], call[2], call[3], call[4])
               pay_id == race_new_id(w, pending.ws[w].done + 1)
           IN  /\ disk' = IF err # "" THEN disk
                          ELSE write_json_atomic(writer_store(store, call, pay_id))
               /\ last' = Result("add_payment", err)
                              @@ [writer |-> w, payment_id |-> IF err # "" THEN 0 ELSE pay_id]
               /\ pending' = [pending EXCEPT
                     !.ws[w] = [pc |-> "idle", done |-> pending.ws[w].done + 1],
                     !.acked = IF err # "" THEN @ ELSE @ \cup {pay_id}]
        /\ UNCHANGED net

NextRace ==
    \/ RaceLoad
    \/ RaceSave

SpecRace == InitRace /\ [][NextRace]_vars

(***************************************************************************)
(* Properties.                                                             *)
(***************************************************************************)
Store == read_json(disk)
Txs == Range(Store.transactions)
RegisteredUsers == index_by_id(Store.users)
RegisteredGroups == index_by_id(Store.groups)

HasEdge(m, a, b) == a \in DOMAIN m /\ b \in DOMAIN m[a]
NoOppositeEdges(m) ==
    \A a \in DOMAIN m : \A b \in DOMAIN m[a] : ~(m[a][b] > 0 /\ _get_edge(m, b, a) > 0)
Signed(m, a, b) == _get_edge(m, a, b) - _get_edge(m, b, a)

RECURSIVE SumSigned(_, _, _, _)
SumSigned(by_group, gs, a, b) ==
    IF gs = {} THEN 0
    ELSE LET g == CHOOSE x \in gs : TRUE
         IN  Signed(by_group[g].net, a, b) + SumSigned(by_group, gs \ {g}, a, b)

DebtSum(tx) == SumSeq([i \in 1..Len(tx.debts) |-> tx.debts[i].amount_cents])
ShareSum(tx) ==
    SumSeq([i \in 1..Len(tx.split.shares) |-> tx.split.shares[i].share_amount_cents])
\* The payer's share: what the payer's entries in split.shares add up to (there
\* is one entry unless the caller's list named the payer more than once).
PayerShare(tx) ==
    SumSeq([i \in 1..Len(tx.split.shares) |->
               IF tx.split.shares[i].user_id = tx.paid_by
               THEN tx.split.shares[i].share_amount_cents ELSE 0])

\* C1: a rebuild leaves, for every group and for the global scope, exactly the
\* edges (from, to, amount_cents) the incrementally maintained balances held just
\* before it, whatever the interleaving of transactions and payments was.
C1_RebuildEquivalence ==
    [][ last'.op = "rebuild_balances" =>
          /\ \A g \in RegisteredGroups :
                group_edges(read_json(disk'), g) = group_edges(read_json(disk), g)
          /\ get_edges(read_json(disk').balances.global.net)
                = get_edges(read_json(disk).balances.global.net) ]_vars

\* C1 witness: a rebuild has run on a store in which a payment was recorded before
\* a transaction of the same group (the rebuild replays them the other way
\* round), and the group has edges.
C1_Witness ==
    /\ last.op = "rebuild_balances"
    /\ \E i \in DOMAIN Store.transactions, j \in DOMAIN Store.payments :
          /\ Store.payments[j].created_at < Store.transactions[i].created_at
          /\ Store.payments[j].group_id = Store.transactions[i].group_id
          /\ Store.payments[j].from_user_id # Store.payments[j].to_user_id
          /\ Store.transactions[i].debts # <<>>
          /\ group_edges(Store, Store.transactions[i].group_id) # {}

\* C2: no net map ever holds both net[a][b] > 0 and net[b][a] > 0: not the map
\* apply_net_delta is applied to with arbitrary ids and deltas, and no group map
\* or global map of the store.
C2_NettingInvariant ==
    /\ NoOppositeEdges(net)
    /\ NoOppositeEdges(Store.balances.global.net)
    /\ \A g \in DOMAIN Store.balances.by_group :
          NoOppositeEdges(Store.balances.by_group[g].net)

\* C2 witness: apply_net_delta has just added to an edge whose opposite edge
\* existed, so the two had to be cancelled against each other.
C2_Witness ==
    /\ last.op = "apply_net_delta"
    /\ last.from_id # last.to_id
    /\ \/ last.delta_cents > 0 /\ _get_edge(last.before, last.to_id, last.from_id) > 0
       \/ last.delta_cents < 0 /\ _get_edge(last.before, last.from_id, last.to_id) > 0
    /\ net # last.before

\* C3 (as claimed): for every recorded transaction, the debts plus the payer's
\* share add up to total_amount_cents.
C3_Conservation ==
    \A tx \in Txs : DebtSum(tx) + PayerShare(tx) = tx.total_amount_cents

\* C4 (as claimed): for every recorded transaction, the shares add up to
\* total_amount_cents.
C4_SharesReconcile ==
    \A tx \in Txs : ShareSum(tx) = tx.total_amount_cents

\* C5 (as claimed): an equal split of T cents over p_0..p_(n-1) records for p_i
\* the share (T div n) + 1 when i < T mod n, and T div n otherwise.
C5_EqualRemainderRule ==
    \A tx \in Txs :
        tx.split.method = "equal" =>
            LET n == Len(tx.split.participant_ids)
                T == tx.total_amount_cents
            IN  /\ Len(tx.split.shares) = n
                /\ \A i \in 1..n :
                      /\ tx.split.shares[i].user_id = tx.split.participant_ids[i]
                      /\ tx.split.shares[i].share_amount_cents
                            = (T \div n) + (IF i - 1 < T % n THEN 1 ELSE 0)

\* C6: a call that fails leaves the store file as it was (and a missing file
\* missing); a payment call whose from_user_id is not registered fails and
\* changes nothing, with the unknown-user error when its group is registered.
C6_AllOrNothing ==
    [][ /\ ~last'.ok => disk' = disk
        /\ last'.op = "add_payment" =>
              \A c \in SpecPaymentCalls :
                  (c[2] \notin RegisteredUsers /\ tool_add_payment(c[1], c[2], c[3], c[4]))
                      => /\ ~last'.ok
                         /\ disk' = disk
                         /\ c[1] \in RegisteredGroups => last'.err = "UnknownUser" ]_vars

\* C6 witness: a payment with an unregistered from_user_id has just been rejected
\* on a store that holds recorded events.
C6_Witness ==
    /\ last.op = "add_payment"
    /\ last.err = "UnknownUser"
    /\ disk.exists
    /\ Events(Store) > 0

\* C7: a payment of p cents from A to B in a group whose map holds A->B = x > 0
\* leaves A->B = x - p when p < x, no edge between A and B when p = x, and
\* B->A = p - x with no A->B when p > x.
C7_PaymentReducesDebt ==
    [][ Len(read_json(disk').payments) = Len(read_json(disk).payments) + 1 =>
          LET pay == read_json(disk').payments[Len(read_json(disk').payments)]
              A == pay.from_user_id
              B == pay.to_user_id
              p == pay.amount_cents
              before == _get_net_map(read_json(disk).balances, "by_group", pay.group_id)
              after == _get_net_map(read_json(disk').balances, "by_group", pay.group_id)
              x == _get_edge(before, A, B)
          IN  x > 0 =>
                /\ p > 0
                /\ p < x => (_get_edge(after, A, B) = x - p /\ ~HasEdge(after, B, A))
                /\ p = x => (~HasEdge(after, A, B) /\ ~HasEdge(after, B, A))
                /\ p > x => (_get_edge(after, B, A) = p - x /\ ~HasEdge(after, A, B)) ]_vars

\* C7 witness: the payment just recorded was an overpayment: its group now holds
\* an edge from the payee back to the payer, smaller than the amount paid.
C7_Witness ==
    /\ last.op = "add_payment"
    /\ last.ok
    /\ Store.payments # <<>>
    /\ LET pay == Store.payments[Len(Store.payments)]
           m == _get_net_map(Store.balances, "by_group", pay.group_id)
       IN  /\ _get_edge(m, pay.to_user_id, pay.from_user_id) > 0
           /\ _get_edge(m, pay.to_user_id, pay.from_user_id) < pay.amount_cents

\* C8: for every ordered pair of users, the signed global balance is the sum of
\* the signed group balances.
C8_GlobalIsSumOfGroups ==
    \A a \in RegisteredUsers, b \in RegisteredUsers :
        Signed(Store.balances.global.net, a, b)
            = SumSigned(Store.balances.by_group, DOMAIN Store.balances.by_group, a, b)

\* C8 witness: two groups hold debts between the same two users in opposite
\* directions, so the global map holds neither group's figure.
C8_Witness ==
    \E a \in RegisteredUsers, b \in RegisteredUsers :
        /\ "g1" \in DOMAIN Store.balances.by_group
        /\ "g2" \in DOMAIN Store.balances.by_group
        /\ Signed(Store.balances.by_group["g1"].net, a, b) > 0
        /\ Signed(Store.balances.by_group["g2"].net, a, b) < 0
        /\ Signed(Store.balances.global.net, a, b)
              # Signed(Store.balances.by_group["g1"].net, a, b)

\* C9: in every recorded transaction each debt points at the payer, comes from
\* another user and is positive, and the debts are, in order, exactly the
\* non-payer share entries with a positive amount.
C9_DebtsPointAtPayer ==
    \A tx \in Txs :
        LET owing == SelectSeq(tx.split.shares,
                               LAMBDA s : s.user_id # tx.paid_by /\ s.share_amount_cents > 0)
        IN  /\ \A i \in 1..Len(tx.debts) :
                  /\ tx.debts[i].to_user_id = tx.paid_by
                  /\ tx.debts[i].from_user_id # tx.paid_by
                  /\ tx.debts[i].amount_cents > 0
            /\ Len(tx.debts) = Len(owing)
            /\ \A i \in 1..Len(owing) :
                  /\ tx.debts[i].from_user_id = owing[i].user_id
                  /\ tx.debts[i].amount_cents = owing[i].share_amount_cents

\* C9 witness: a recorded transaction with a non-payer share of zero (no debt),
\* a payer share, and a debt.
C9_Witness ==
    \E tx \in Txs :
        /\ \E i \in 1..Len(tx.split.shares) :
              tx.split.shares[i].user_id # tx.paid_by
              /\ tx.split.shares[i].share_amount_cents = 0
        /\ Len(tx.debts) >= 1
        /\ Len(tx.debts) < Len(tx.split.shares) - 1

\* C10 (as claimed): every recorded transaction has a total and shares >= 0.
C10_NonNegativeAmounts ==
    \A tx \in Txs :
        /\ tx.total_amount_cents >= 0
        /\ \A i \in 1..Len(tx.split.shares) : tx.split.shares[i].share_amount_cents >= 0

\* The caller's share entries that carry a user id and an amount key.
WellFormed(shares) == \A i \in 1..Len(shares) : shares[i].user_id # "" /\ shares[i].key # "none"

\* C11: a payment whose amount converts to <= 0 cents is rejected with the
\* invalid-amount error (its group and users being registered); a custom split
\* with a share of negative cents, or whose shares add up to <= 0 cents, is
\* rejected (with the invalid-amount error when nothing else is wrong with it);
\* nothing is saved; and every stored payment has amount_cents > 0, every stored
\* custom-split transaction total_amount_cents > 0.
C11_InvalidAmountsRejected ==
    [][ /\ ( /\ pending.op = "payment"
             /\ pending.group_id \in RegisteredGroups
             /\ {pending.from_user_id, pending.to_user_id} \subseteq RegisteredUsers
             /\ to_cents(pending.amount) <= 0 )
              => (last'.err = "InvalidAmount" /\ disk' = disk)
        /\ ( /\ pending.op = "custom"
             /\ WellFormed(pending.shares)
             /\ \/ \E i \in 1..Len(pending.shares) : entry_cents(pending.shares[i]) < 0
                \/ SumSeq([i \in 1..Len(pending.shares) |->
                              entry_cents(pending.shares[i])]) <= 0 )
              => /\ ~last'.ok
                 /\ disk' = disk
                 /\ ( /\ pending.group_id \in RegisteredGroups
                      /\ pending.paid_by \in RegisteredUsers
                      /\ \A i \in 1..Len(pending.shares) :
                            pending.shares[i].user_id \in RegisteredUsers
                      /\ pending.items = <<>> )
                       => last'.err = "InvalidAmount"
        /\ \A i \in DOMAIN read_json(disk').payments :
              read_json(disk').payments[i].amount_cents > 0
        /\ \A i \in DOMAIN read_json(disk').transactions :
              read_json(disk').transactions[i].split.method = "custom"
                  => read_json(disk').transactions[i].total_amount_cents > 0 ]_vars

\* C11 witness: a payment between registered users of a registered group has
\* just been rejected for its amount, and no payment is stored.
C11_Witness ==
    /\ pending.op = "payment"
    /\ last.op = "add_payment"
    /\ last.err = "InvalidAmount"
    /\ to_cents(pending.amount) = 0
    /\ pending.amount.v # 0
    /\ Store.payments = <<>>

\* s is t, or t with records appended.
IsPrefix(s, t) == Len(s) <= Len(t) /\ \A i \in 1..Len(s) : t[i] = s[i]

\* C12: every step leaves the stored transactions and payments as a prefix of the
\* new lists; a successful split call appends exactly one transaction and no
\* payment, a successful payment call exactly one payment and no transaction;
\* every other call, and every failed call, leaves both lists as they were.
C12_AppendOnlyLog ==
    [][ LET old == read_json(disk)
            new == read_json(disk')
            tx_call == last'.op \in {"add_transaction_equal_split",
                                     "add_transaction_custom_split"}
            pay_call == last'.op = "add_payment"
        IN  /\ IsPrefix(old.transactions, new.transactions)
            /\ IsPrefix(old.payments, new.payments)
            /\ Len(new.transactions) = Len(old.transactions)
                  + (IF tx_call /\ last'.ok THEN 1 ELSE 0)
            /\ Len(new.payments) = Len(old.payments)
                  + (IF pay_call /\ last'.ok THEN 1 ELSE 0) ]_vars

\* C12 witness: a rebuild has run on a store that holds a transaction and a
\* payment.
C12_Witness ==
    /\ last.op = "rebuild_balances"
    /\ Store.transactions # <<>>
    /\ Store.payments # <<>>

\* C13 (as claimed): every user record that was ever written to the store is
\* still in it, with the same id and name.
C13_UsersNeverDeleted ==
    pending.op = "session" =>
        \A i \in 1..Len(pending.issued) : pending.issued[i] \in Range(Store.users)

\* C14: in every persisted state, the user ids of every group's member_ids, of
\* every transaction's paid_by, participant_ids, shares, debts and item
\* assignments, and of every payment's two ends are ids of `users`, and every
\* transaction's and payment's group_id is the id of a group of `groups`.
C14_ReferentialIntegrity ==
    /\ \A i \in DOMAIN Store.groups :
          Range(Store.groups[i].member_ids) \subseteq RegisteredUsers
    /\ \A tx \in Txs :
          /\ tx.group_id \in RegisteredGroups
          /\ tx.paid_by \in RegisteredUsers
          /\ Range(tx.split.participant_ids) \subseteq RegisteredUsers
          /\ \A i \in DOMAIN tx.split.shares :
                tx.split.shares[i].user_id \in RegisteredUsers
          /\ \A i \in DOMAIN tx.debts :
                {tx.debts[i].from_user_id, tx.debts[i].to_user_id} \subseteq RegisteredUsers
          /\ "items" \in DOMAIN tx =>
                \A i \in DOMAIN tx.items :
                    Range(tx.items[i].assigned_member_ids) \subseteq RegisteredUsers
    /\ \A i \in DOMAIN Store.payments :
          /\ Store.payments[i].group_id \in RegisteredGroups
          /\ {Store.payments[i].from_user_id, Store.payments[i].to_user_id}
                \subseteq RegisteredUsers

\* C14 witness: the store holds a group, a custom-split transaction with item
\* assignments and a payment, and the last call was rejected for an unknown user.
C14_Witness ==
    /\ Store.groups # <<>>
    /\ \E tx \in Txs : "items" \in DOMAIN tx /\ tx.debts # <<>>
    /\ Store.payments # <<>>
    /\ last.err = "UnknownUser"

\* Where the user with this id is in `users` (the name argument of an
\* upsert_user call that has returned is the name stored under the returned id).
UserIndex(store, user_id) ==
    (CHOOSE i \in DOMAIN store.users : store.users[i].id = user_id)

\* C15: an upsert_user call with a name the store holds (exact match) returns
\* that user's id with created = FALSE and leaves the store file as it was; with
\* a new name it returns created = TRUE and adds exactly one user, under the
\* returned id; and a call that follows a creating call with the same name
\* returns the same id with created = FALSE and adds nothing.
C15_UpsertIdempotent ==
    [][ last'.op = "upsert_user" =>
          LET old == read_json(disk)
              new == read_json(disk')
              k == UserIndex(new, last'.user_id)
              name == new.users[k].name
          IN  /\ last'.ok
              /\ last'.user_id \in index_by_id(new.users)
              /\ IF \E i \in DOMAIN old.users : old.users[i].name = name
                 THEN /\ ~last'.created
                      /\ last'.user_id = find_user_id_by_name(old, name)
                      /\ disk' = disk
                 ELSE /\ last'.created
                      /\ new.users = Append(old.users, [id |-> last'.user_id, name |-> name])
                      /\ last'.user_id \notin index_by_id(old.users)
              /\ ( /\ last.op = "upsert_user"
                   /\ last.created
                   /\ old.users[UserIndex(old, last.user_id)].name = name )
                    => /\ ~last'.created
                       /\ last'.user_id = last.user_id
                       /\ new.users = old.users ]_vars

\* C15 witness: an upsert_user call for "Ann" has returned the existing id with
\* created = FALSE, in a store that also holds the name "ann".
C15_Witness ==
    /\ last.op = "upsert_user"
    /\ ~last.created
    /\ Store.users[Len(Store.users)].id = last.user_id
    /\ Store.users[Len(Store.users)].name = "Ann"
    /\ \E i \in DOMAIN Store.users : Store.users[i].name = "ann"

\* C16: no two records of `users` have the same name, and no two the same id.
C16_UniqueUserNames ==
    \A i \in DOMAIN Store.users, j \in DOMAIN Store.users :
        i # j => /\ Store.users[i].name # Store.users[j].name
                 /\ Store.users[i].id # Store.users[j].id

\* C16 witness: three users are stored, two of them with names that differ in
\* case only, and the last call was an upsert_user of a stored name that is not
\* the newest.
C16_Witness ==
    /\ Len(Store.users) = 3
    /\ last.op = "upsert_user"
    /\ ~last.created
    /\ last.user_id # Store.users[3].id
    /\ {"ann", "Ann"} \subseteq {Store.users[i].name : i \in DOMAIN Store.users}

\* C17 (as claimed): every group of `groups` has an entry in balances.by_group.
C17_GroupOwnsPartition ==
    \A g \in RegisteredGroups : g \in DOMAIN Store.balances.by_group

\* C18: at every step of a save, and after a crash at any point of it, the
\* target path holds a complete document that has reached the disk (or no file,
\* if there was none): until the rename, and after a crash before it, the very
\* file that was there when the save began; after the rename, the complete new
\* document.
C18_AtomicSave ==
    pending.op = "save" =>
        /\ disk.exists => (disk.len = MaxChunks /\ disk.synced)
        /\ pending.pc \in {"open", "dump", "fsync", "replace", "crashed"}
              => disk = pending.prev
        /\ pending.pc = "done" => disk = File(pending.data, MaxChunks, TRUE)

\* C18 witness: a save of a new document over an existing one has crashed in
\* the middle of the dump, and the temporary file is left behind, cut short.
C18_Witness ==
    /\ pending.op = "save"
    /\ pending.pc = "crashed"
    /\ last.pc = "dump"
    /\ disk.exists
    /\ disk.doc # pending.data
    /\ pending.tmp.exists
    /\ pending.tmp.len > 0
    /\ pending.tmp.len < MaxChunks

\* The default store, as the specification describes it.
FreshDefault(store) ==
    /\ store.schema_version = 1
    /\ store.users = <<>> /\ store.groups = <<>>
    /\ store.transactions = <<>> /\ store.payments = <<>>
    /\ store.balances.by_group = EmptyMap
    /\ store.balances.global.net = EmptyMap
    /\ store.balances.updated_at = None

\* C19: a load of a missing path creates no file and returns a fresh default
\* store, in an object of its own: not DEFAULT_STORE itself and not an object
\* an earlier load returned; and DEFAULT_STORE stays the default whatever is
\* done to the loaded stores.
C19_LoadMissingStore ==
    pending.op = "heap" =>
        /\ ~disk.exists
        /\ FreshDefault(pending.heap[DefaultRef])
        /\ FreshDefault(read_json(disk))
        /\ last.op = "read_json" =>
              /\ FreshDefault(pending.heap[last.ref])
              /\ last.ref # DefaultRef
              /\ last.ref \notin last.held

\* C19 witness: a load has just returned a fresh default store although two
\* stores loaded before it have been edited.
C19_Witness ==
    /\ pending.op = "heap"
    /\ last.op = "read_json"
    /\ Cardinality({ref \in last.held : pending.heap[ref].users # <<>>}) >= 2

\* C20 (as claimed): on a file that exists and does not fit the schema, every
\* operation that loads the store fails, and the file stays as it was.
C20_CorruptRejected ==
    pending.op = "corrupt" =>
        /\ disk = pending.original
        /\ last.op \in {"upsert_user", "rebuild_balances", "get_group_balances"}
              => ~last.ok

\* C21: in every recorded transaction paid_by is one of split.participant_ids
\* and has an entry in split.shares; a custom split whose shares do not name the
\* payer is recorded with the caller's entries followed by one entry of 0 cents
\* for the payer; an equal split whose payer is not in participant_ids is
\* rejected and saves nothing.
C21_PayerParticipates ==
    [][ /\ \A i \in DOMAIN read_json(disk').transactions :
              LET tx == read_json(disk').transactions[i]
              IN  /\ tx.paid_by \in Range(tx.split.participant_ids)
                  /\ \E k \in 1..Len(tx.split.shares) :
                        tx.split.shares[k].user_id = tx.paid_by
        /\ ( /\ pending.op = "custom"
             /\ last'.ok
             /\ \A i \in 1..Len(pending.shares) :
                   pending.shares[i].user_id # pending.paid_by )
              => LET tx == read_json(disk').transactions[Len(read_json(disk').transactions)]
                     n == Len(pending.shares)
                 IN  /\ Len(read_json(disk').transactions)
                           = Len(read_json(disk).transactions) + 1
                     /\ Len(tx.split.shares) = n + 1
                     /\ tx.split.shares[n + 1]
                           = [user_id |-> pending.paid_by, share_amount_cents |-> 0]
                     /\ \A i \in 1..n :
                           tx.split.shares[i].user_id = pending.shares[i].user_id
                     /\ tx.split.participant_ids[n + 1] = pending.paid_by
        /\ ( /\ pending.op = "equal"
             /\ pending.paid_by \notin Range(pending.participant_ids) )
              => (~last'.ok /\ disk' = disk) ]_vars

\* C21 witness: a custom split paid by a user that the caller's two share
\* entries do not name has been recorded, with a debt for each entry.
C21_Witness ==
    /\ last.op = "add_transaction_custom_split"
    /\ last.ok
    /\ \E tx \in Txs :
          /\ tx.paid_by = "u3"
          /\ Len(tx.split.shares) = 3
          /\ tx.split.shares[3] = Share("u3", 0)
          /\ Len(tx.debts) = 2

\* C22: get_group_balances of a registered group returns one edge (from, to,
\* amount_cents) for each entry of that group's net map and nothing else,
\* together with balances.updated_at; of an unregistered group it fails with the
\* unknown-group error; either way the store file is left as it was.
C22_BalancesPureRead ==
    [][ last'.op = "get_group_balances" =>
          LET byg == Store.balances.by_group
              g == last'.group_id
              m == IF g \in DOMAIN byg THEN byg[g].net ELSE EmptyMap
          IN  /\ disk' = disk
              /\ g \in RegisteredGroups =>
                    /\ last'.ok
                    /\ \A e \in last'.edges : HasEdge(m, e[1], e[2]) /\ e[3] = m[e[1]][e[2]]
                    /\ \A a \in DOMAIN m : \A b \in DOMAIN m[a] :
                          <<a, b, m[a][b]>> \in last'.edges
                    /\ last'.updated_at = Store.balances.updated_at
              /\ g \notin RegisteredGroups =>
                    (~last'.ok /\ last'.err = "UnknownGroup") ]_vars

\* C22 witness: the balances of a group with an edge have been read from a store
\* whose global map differs from that group's map.
C22_Witness ==
    /\ last.op = "get_group_balances"
    /\ last.ok
    /\ last.edges # {}
    /\ last.edges # get_edges(Store.balances.global.net)
    /\ last.updated_at = now_iso

\* The position of uid in ids (0 when it is not there).
Position(ids, uid) ==
    IF uid \in Range(ids) THEN CHOOSE i \in DOMAIN ids : ids[i] = uid ELSE 0

\* What the base/remainder rule gives uid of item it: cost div k, and one cent
\* more for the first (cost mod k) of its k assignees.
RuleShare(it, uid) ==
    LET ids == it.assigned_member_ids
        k == Len(ids)
        pos == Position(ids, uid)
    IN  IF pos = 0 THEN 0
        ELSE (it.cost.v \div k) + (IF pos - 1 < it.cost.v % k THEN 1 ELSE 0)

CostSum(items) == SumSeq([i \in 1..Len(items) |-> to_cents(items[i].cost)])

\* C23: the adapter charges each item to k distinct assignees, cost_cents div k
\* each and one cent more to the first (cost_cents mod k) of them; a member's
\* share is the sum of that over the items; the shares add up to the sum of the
\* item costs in cents; and the custom split recorded from them has that total
\* and debts that add up to the total less the payer's share.
C23_IngestConservesCents ==
    [][ (last'.op = "process" /\ "prep" \in DOMAIN last') =>
          LET prep == last'.prep
              txs == read_json(disk').transactions
              tx == txs[Len(txs)]
          IN  /\ Len(prep.items) = Len(pending.items)
              /\ \A i \in DOMAIN prep.items :
                    LET ids == prep.items[i].assigned_member_ids
                    IN  /\ prep.items[i].cost.v = to_cents(pending.items[i].cost)
                        /\ Len(ids) > 0
                        /\ \A a \in DOMAIN ids, b \in DOMAIN ids : ids[a] = ids[b] => a = b
              /\ \A i \in DOMAIN prep.shares :
                    prep.shares[i].val.v
                        = SumSeq([j \in 1..Len(prep.items) |->
                                     RuleShare(prep.items[j], prep.shares[i].user_id)])
              /\ \A a \in DOMAIN prep.shares, b \in DOMAIN prep.shares :
                    prep.shares[a].user_id = prep.shares[b].user_id => a = b
              /\ SumSeq([i \in 1..Len(prep.shares) |-> prep.shares[i].val.v])
                    = CostSum(pending.items)
              /\ prep.total_cents = CostSum(pending.items)
              /\ Len(txs) = Len(read_json(disk).transactions) + 1 =>
                    /\ tx.total_amount_cents = CostSum(pending.items)
                    /\ DebtSum(tx) = tx.total_amount_cents - PayerShare(tx) ]_vars

\* C23 witness: a bill of two items has been recorded, one of them with a cost
\* that does not divide evenly among its assignees, and it left debts.
C23_Witness ==
    /\ last.op = "process"
    /\ last.ok
    /\ Len(last.prep.items) = 2
    /\ \E i \in DOMAIN last.prep.items :
          last.prep.items[i].cost.v % Len(last.prep.items[i].assigned_member_ids) # 0
    /\ \E tx \in Txs : tx.total_amount_cents = last.prep.total_cents /\ Len(tx.debts) >= 2

\* C24: an item with no entry, or an empty one, in the assignment mapping is
\* charged to every member, in member order; an item with assignees is charged
\* to them and to nobody else; a one-item bill nobody is assigned to gives the
\* i-th member cost div n, and a cent more to the first (cost mod n); and a call
\* with an assignee (or payer) that is neither a member id nor a member name
\* fails and leaves no users, groups, transactions, payments or balances behind
\* that were not there.
C24_UnassignedDefaultToAll ==
    [][ last'.op = "process" =>
          LET members == pending.members
              ids == [i \in 1..Len(members) |-> members[i].id]
              known == Range(ids) \cup {members[i].name : i \in DOMAIN members}
              raw(i) == raw_assignees(pending.item_assignments, pending.items[i])
              unknown == \/ pending.paid_by \notin known
                         \/ \E i \in DOMAIN pending.items : ~(Range(raw(i)) \subseteq known)
          IN  /\ (members # <<>> /\ unknown) =>
                    /\ ~last'.ok
                    /\ last'.err = "UnknownMember"
                    /\ read_json(disk') = read_json(disk)
              /\ "prep" \in DOMAIN last' =>
                    /\ ~unknown
                    /\ \A i \in DOMAIN pending.items :
                          LET charged == last'.prep.items[i].assigned_member_ids
                          IN  IF raw(i) = <<>>
                              THEN charged = dedupe(ids)
                              ELSE /\ \A u \in Range(charged) :
                                         \E r \in Range(raw(i)) :
                                            r = u \/ Member(u, r) \in Range(members)
                                   /\ \A r \in Range(raw(i)) :
                                         \E u \in Range(charged) :
                                            r = u \/ Member(u, r) \in Range(members)
                    /\ \A k \in DOMAIN last'.prep.shares :
                          LET uid == last'.prep.shares[k].user_id
                          IN  \/ uid = last'.prep.paid_by /\ last'.prep.shares[k].val.v = 0
                              \/ \E i \in DOMAIN last'.prep.items :
                                    uid \in Range(last'.prep.items[i].assigned_member_ids)
                    /\ (Len(pending.items) = 1 /\ raw(1) = <<>>) =>
                          LET n == Len(members)
                              cost == to_cents(pending.items[1].cost)
                          IN  /\ Len(last'.prep.shares) = n
                              /\ \A i \in 1..n :
                                    /\ last'.prep.shares[i].user_id = members[i].id
                                    /\ last'.prep.shares[i].val.v
                                          = (cost \div n) + (IF i - 1 < cost % n THEN 1 ELSE 0) ]_vars

\* C24 witness: a bill with an item nobody is assigned to, charged to all three
\* members, and an item charged to one assignee, has been recorded.
C24_Witness ==
    /\ last.op = "process"
    /\ last.ok
    /\ Store.transactions # <<>>
    /\ \E i \in DOMAIN last.prep.items, j \in DOMAIN last.prep.items :
          /\ last.prep.items[i].assigned_member_ids = <<"u1", "u2", "u3">>
          /\ last.prep.items[i].name = "tea"
          /\ last.prep.items[i].cost.v = 3
          /\ Len(last.prep.items[j].assigned_member_ids) = 1

\* C25: the balances process() returns are, for each member, what the edges of
\* the group in the store file it leaves give that member less what they take,
\* converted to a float: they are fixed by those edges and the members, and the
\* summary the agent reported has no part in them.
C25_LedgerAuthoritative ==
    [][ (last'.op = "process" /\ last'.ok) =>
          LET edges == group_edges(read_json(disk'), pending.group_id)
          IN  /\ DOMAIN last'.balances = {pending.members[i].name : i \in DOMAIN pending.members}
              /\ \A i \in DOMAIN pending.members :
                    last'.balances[pending.members[i].name]
                        = from_cents(edge_total({e \in edges : e[2] = pending.members[i].id})
                                     - edge_total({e \in edges : e[1] = pending.members[i].id})) ]_vars

\* C25 witness: process() has returned balances that are not all zero, from a
\* ledger with edges, after the agent reported a summary that differs from them.
C25_Witness ==
    /\ last.op = "process"
    /\ last.ok
    /\ last.reported # EmptyMap
    /\ last.reported # last.balances
    /\ \E name \in DOMAIN last.balances : last.balances[name].m # 0
    /\ "ann" \in DOMAIN last.balances
    /\ last.balances["ann"] # last.reported["ann"]

\* C26 (as claimed): to_cents(from_cents(c)) = c for every integer c.
C26_CodecRoundTrip ==
    last.op = "round_trip" => last.back = last.cents

\* C27: to_cents of a decimal amount is the amount rounded to two fractional
\* digits and scaled by 100: a third digit of 5 or more goes to the next cent
\* (10.005 gives 1001), one of 4 or less is dropped (10.004 gives 1000); for an
\* amount below zero the same holds of its magnitude.
C27_HalfUpRounding ==
    last.op = "to_cents" =>
        LET v == last.amount.v
            mag == IF v < 0 THEN 0 - v ELSE v
            third == mag % 10
            cents == IF last.cents < 0 THEN 0 - last.cents ELSE last.cents
        IN  /\ third >= 5 => cents = (mag \div 10) + 1
            /\ third <= 4 => cents = mag \div 10
            /\ v >= 0 => last.cents >= 0
            /\ v <= 0 => last.cents <= 0
            /\ v = 10005 => last.cents = 1001
            /\ v = 10004 => last.cents = 1000

\* C27 witness: 10.005 has been converted, to 1001 cents.
C27_Witness ==
    /\ last.op = "to_cents"
    /\ last.amount = DecAmt(10005)
    /\ last.cents = 1001

\* The fields and keys the schema knows.
SchemaKeys ==
    {"schema_version", "app", "users", "groups", "transactions", "payments", "balances"}
KnownFields(collection) ==
    IF collection = "users" THEN {"id", "name"}
    ELSE IF collection = "groups" THEN {"id", "name", "member_ids"}
    ELSE IF collection = "transactions"
         THEN {"id", "group_id", "created_at", "currency", "total_amount_cents", "paid_by",
               "split", "debts", "items"}
    ELSE {"id", "group_id", "created_at", "currency", "from_user_id", "to_user_id",
          "amount_cents"}

\* C28: whatever a call does, every user, group, transaction and payment record
\* that was in the store file is still there with every field the schema does
\* not know, unchanged, and so is every top-level key the schema does not know.
C28_UnknownFieldsSurvive ==
    [][ LET old == read_json(disk)
            new == read_json(disk')
        IN  /\ \A collection \in {"users", "groups", "transactions", "payments"} :
                  \A i \in DOMAIN old[collection] :
                      /\ i \in DOMAIN new[collection]
                      /\ \A field \in DOMAIN old[collection][i] \ KnownFields(collection) :
                            /\ field \in DOMAIN new[collection][i]
                            /\ new[collection][i][field] = old[collection][i][field]
            /\ \A key \in DOMAIN old \ SchemaKeys :
                  key \in DOMAIN new /\ new[key] = old[key] ]_vars

\* C28 witness: a rebuild has re-saved a store that holds the unknown top-level
\* key, the unknown fields of the first user, group and transaction, and a user,
\* a group and a payment recorded since.
C28_Witness ==
    /\ last.op = "rebuild_balances"
    /\ "x_audit" \in DOMAIN Store
    /\ "email" \in DOMAIN Store.users[1]
    /\ "color" \in DOMAIN Store.groups[1]
    /\ Store.transactions # <<>>
    /\ "receipt" \in DOMAIN Store.transactions[1]
    /\ Len(Store.users) = 4
    /\ Len(Store.groups) = 2
    /\ Len(Store.payments) = 1

\* C29: a delta of -d from a to b (a # b, d > 0) leaves exactly the map that a
\* delta of d from b to a leaves, and the other way round.
C29_NegativeDeltaSymmetry ==
    (last.op = "apply_net_delta" /\ last.from_id # last.to_id /\ last.delta_cents # 0) =>
        net = apply_net_delta(last.before, last.to_id, last.from_id, 0 - last.delta_cents)

\* C29 witness: a negative delta from a to b has been applied to a map that held
\* an edge from a to b, and changed it.
C29_Witness ==
    /\ last.op = "apply_net_delta"
    /\ last.from_id # last.to_id
    /\ last.delta_cents < 0
    /\ _get_edge(last.before, last.from_id, last.to_id) > 0
    /\ net # last.before

NoSelfEdge(m) == \A a \in DOMAIN m : a \notin DOMAIN m[a]

\* C30: apply_net_delta with from_id = to_id, or with a delta of 0, leaves the
\* map as it was; a payment from a user to themselves leaves the edges of its
\* group and the global edges as they were; and no map, the one apply_net_delta
\* works on or one of the store, ever holds an entry net[a][a].
C30_NoSelfEdges ==
    [][ /\ ( /\ last'.op = "apply_net_delta"
             /\ last'.from_id = last'.to_id \/ last'.delta_cents = 0 )
              => (net' = net /\ last'.before = net)
        /\ Len(read_json(disk').payments) = Len(read_json(disk).payments) + 1 =>
              LET pay == read_json(disk').payments[Len(read_json(disk').payments)]
              IN  pay.from_user_id = pay.to_user_id =>
                    /\ group_edges(read_json(disk'), pay.group_id)
                          = group_edges(read_json(disk), pay.group_id)
                    /\ get_edges(read_json(disk').balances.global.net)
                          = get_edges(read_json(disk).balances.global.net)
        /\ NoSelfEdge(net')
        /\ NoSelfEdge(read_json(disk').balances.global.net)
        /\ \A g \in DOMAIN read_json(disk').balances.by_group :
              NoSelfEdge(read_json(disk').balances.by_group[g].net) ]_vars

\* C30 witness: a payment from a user to themselves is on record, in a group
\* with an edge, and a delta from a user to themselves has just been applied to
\* a map with an edge.
C30_Witness ==
    /\ \E i \in DOMAIN Store.payments :
          Store.payments[i].from_user_id = Store.payments[i].to_user_id
    /\ group_edges(Store, "g1") # {}
    /\ last.op = "apply_net_delta"
    /\ last.from_id = last.to_id
    /\ last.delta_cents # 0
    /\ net # EmptyMap

\* The map is sparse: every stored entry is a positive integer and no key maps
\* to an empty inner map.
Sparse(m) ==
    \A a \in DOMAIN m :
        /\ DOMAIN m[a] # {}
        /\ \A b \in DOMAIN m[a] : m[a][b] \in Nat /\ m[a][b] > 0

\* C31: starting from the empty net map, after any sequence of apply_net_delta
\* calls every stored entry net[a][b] is a strictly positive integer, no zero or
\* negative entry is stored, and no user key maps to an empty inner map.
C31_SparseRepresentation == Sparse(net)

\* C31 witness: a delta has just brought the only edge of a user down to zero,
\* and the user's key is gone from the map while another user's edge remains.
C31_Witness ==
    /\ last.op = "apply_net_delta"
    /\ \E a \in DOMAIN last.before :
          /\ a \notin DOMAIN net
          /\ \E b \in DOMAIN last.before[a] : _get_edge(net, b, a) = 0
    /\ net # EmptyMap

\* The member_ids of group g of the store (no ids if the group is not stored).
MembersOf(store, g) ==
    UNION {Range(store.groups[i].member_ids) :
             i \in {j \in DOMAIN store.groups : store.groups[j].id = g}}

\* C32 (as claimed): after any sequence of equal splits, custom splits and
\* payments, every edge of by_group[g].net connects two users that are both in
\* the member_ids of group g.
C32_GroupBalancesInsideGroup ==
    \A g \in DOMAIN Store.balances.by_group :
        \A e \in get_edges(Store.balances.by_group[g].net) :
            e[1] \in MembersOf(Store, g) /\ e[2] \in MembersOf(Store, g)

\* The maps that the updates of a multiset leave when they are applied to the
\* empty map, one map for each order of application.
RECURSIVE FinalMaps(_)
FinalMaps(bag) ==
    IF DOMAIN bag = {} THEN {EmptyMap}
    ELSE UNION {{apply_net_delta(m, u[1], u[2], u[3]) : m \in FinalMaps(BagRemove(bag, u))} :
                  u \in DOMAIN bag}

\* The signed sum of the deltas between a and b: those from a to b, less those
\* from b to a.
RECURSIVE SignedSum(_, _, _)
SignedSum(bag, a, b) ==
    IF DOMAIN bag = {} THEN 0
    ELSE LET u == CHOOSE x \in DOMAIN bag : TRUE
             rest == SignedSum(Del(bag, u), a, b)
         IN  IF a = b THEN 0
             ELSE IF u[1] = a /\ u[2] = b THEN rest + bag[u] * u[3]
             ELSE IF u[1] = b /\ u[2] = a THEN rest - bag[u] * u[3]
             ELSE rest

\* C33: the updates applied so far to the empty map leave the same map in every
\* order of application, the map that is there; and the entry of each pair is
\* the signed sum of the deltas between the two users where that is positive,
\* and absent where it is not.
C33_OrderIndependence ==
    /\ FinalMaps(pending.bag) = {net}
    /\ \A a \in OrderUsers, b \in OrderUsers :
          LET s == SignedSum(pending.bag, a, b)
          IN  /\ _get_edge(net, a, b) = IF s > 0 THEN s ELSE 0
              /\ HasEdge(net, a, b) <=> s > 0

\* C33 witness: three updates have been applied, among them a delta of 2 and a
\* delta of -1 on the same pair and one on another pair, and the pair's edge is
\* what is left of the two.
C33_Witness ==
    /\ pending.n = MaxUpdates
    /\ \E a \in OrderUsers, b \in OrderUsers :
          /\ a # b
          /\ {<<a, b, 2>>, <<a, b, 0 - 1>>} \subseteq DOMAIN pending.bag
          /\ _get_edge(net, a, b) = 1
          /\ \E u \in DOMAIN pending.bag : u[1] # a /\ u[2] # a /\ u[1] # u[2]

\* C34: a run of rebuild_balances leaves users, groups, transactions and
\* payments exactly as they were, and a second run right after it would leave
\* the by_group and global net maps that the first run left.
C34_RebuildIdempotent ==
    [][ last'.op = "rebuild_balances" =>
          LET before == read_json(disk)
              once == read_json(disk')
              twice == rebuild_store(once)
          IN  /\ once.users = before.users
              /\ once.groups = before.groups
              /\ once.transactions = before.transactions
              /\ once.payments = before.payments
              /\ twice.users = once.users
              /\ twice.groups = once.groups
              /\ twice.transactions = once.transactions
              /\ twice.payments = once.payments
              /\ twice.balances.by_group = once.balances.by_group
              /\ twice.balances.global.net = once.balances.global.net ]_vars

\* C34 witness: rebuild_balances has just run on a store with a transaction
\* with debts and a payment, and it left edges in a group and globally.
C34_Witness ==
    /\ last.op = "rebuild_balances"
    /\ \E i \in DOMAIN Store.transactions : Store.transactions[i].debts # <<>>
    /\ Store.payments # <<>>
    /\ \E g \in DOMAIN Store.balances.by_group : Store.balances.by_group[g].net # EmptyMap
    /\ Store.balances.global.net # EmptyMap

\* The step has recorded one event (a transaction or a payment) of group g.
RecordedIn(g) ==
    LET before == read_json(disk)
        after == read_json(disk')
    IN  \/ /\ Len(after.transactions) = Len(before.transactions) + 1
           /\ after.transactions[Len(after.transactions)].group_id = g
        \/ /\ Len(after.payments) = Len(before.payments) + 1
           /\ after.payments[Len(after.payments)].group_id = g

\* C35: a successful equal split, custom split or payment in group g leaves the
\* net map of every other group as it was, and gives no other group a net map.
C35_OtherGroupsUntouched ==
    [][ \A g \in RegisteredGroups :
          (last'.ok /\ RecordedIn(g)) =>
              LET before == read_json(disk).balances.by_group
                  after == read_json(disk').balances.by_group
              IN  /\ DOMAIN after \subseteq DOMAIN before \cup {g}
                  /\ \A h \in DOMAIN before \ {g} :
                        h \in DOMAIN after /\ after[h].net = before[h].net ]_vars

\* C35 witness: a payment has just been recorded in one group, with an effect
\* on the global map, while another group holds edges from an earlier event.
C35_Witness ==
    /\ last.op = "add_payment"
    /\ last.ok
    /\ Store.payments # <<>>
    /\ Store.transactions # <<>>
    /\ LET pay == Store.payments[Len(Store.payments)]
           tx == Store.transactions[Len(Store.transactions)]
       IN  /\ pay.from_user_id # pay.to_user_id
           /\ tx.group_id # pay.group_id
           /\ tx.created_at < pay.created_at
           /\ group_edges(Store, tx.group_id) # {}
           /\ group_edges(Store, pay.group_id) # {}

PaymentIds(store) == {store.payments[i].id : i \in DOMAIN store.payments}

\* C36: a writer's successful save leaves the payments of the document it
\* loaded and its own, so that it overwrites every payment another writer saved
\* after that load; and as long as the calls have been serialized (no writer
\* loaded while another was between its load and its save) every payment
\* returned with ok is in the document.
C36_WritersRace ==
    [][ /\ \A w \in Writers :
              ( /\ pending.ws[w].pc = "loaded"
                /\ pending'.ws[w].pc = "idle"
                /\ last'.ok ) =>
                  /\ PaymentIds(read_json(disk'))
                        = PaymentIds(pending.ws[w].store) \cup {last'.payment_id}
                  /\ \A lost \in PaymentIds(read_json(disk)) \ PaymentIds(pending.ws[w].store) :
                        lost \notin PaymentIds(read_json(disk'))
        /\ ~pending'.overlap => pending'.acked \subseteq PaymentIds(read_json(disk')) ]_vars

\* C36 witness: both writers have finished, both payments were returned with
\* ok, and the final document holds the second writer's payment and not the
\* first's.
C36_Witness ==
    /\ \A w \in Writers : pending.ws[w].pc = "idle" /\ pending.ws[w].done = 1
    /\ pending.acked = {race_new_id(1, 1), race_new_id(2, 1)}
    /\ PaymentIds(Store) = {race_new_id(2, 1)}
    /\ last.ok

====
